---------------------------- MODULE Spec2Model ----------------------------
(***************************************************************************)
(* FrFTL, the flash resident flash translation layer of                    *)
(* radio/src/thirdparty/frftl/frftl.cpp, as a state machine.               *)
(*                                                                         *)
(* The device is the 8 MiB one (two translation table pages), which is the *)
(* smallest one that has a secondary translation table.  A page keeps its  *)
(* layout but holds fewer records and fewer sectors than the real one, and *)
(* the 512 bytes of a sector are abstracted to a set of bits that are      *)
(* still 1, so that programming without erasing is the intersection it is  *)
(* on NOR flash.                                                           *)
(***************************************************************************)
EXTENDS Integers, Sequences, FiniteSets, TLC

VARIABLES
    flash,      \* the NOR device: physical page number -> page content
    ftl,        \* the FrFTL structure in RAM (cache included)
    op,         \* the last API call: its name, arguments, result, HAL traffic
    shadow,     \* sector -> the payload of the most recent accepted write
    durable,    \* shadow as of the last sync that returned true
    undef,      \* an uninitialised PageInfo or a null buffer was used
    nops        \* number of API calls made so far

vars == <<flash, ftl, op, shadow, durable, undef, nops>>

-----------------------------------------------------------------------------
(* Sizes.  The two scaled ones are the bounds of the model.                *)

SECTORS_PER_PAGE == 2
TT_RECORDS_PER_PAGE == 32
BUFFER_SIZE_MULTIPLIER == 4
RESERVED_PAGES_MULTIPLIER == 16
\* 0xEF87364A, as its two 16 bit halves
TT_PAGE_MAGIC == [hi |-> 61319, lo |-> 13898]
flashSizeInMB == 8

ttPageCount == flashSizeInMB \div 4
physicalPageCount == ttPageCount * TT_RECORDS_PER_PAGE
usableSectorCount ==
    (physicalPageCount - ttPageCount * RESERVED_PAGES_MULTIPLIER) * SECTORS_PER_PAGE
pageBufferSize == ttPageCount * BUFFER_SIZE_MULTIPLIER

PhysPages == 0 .. physicalPageCount - 1
Slots == 0 .. pageBufferSize - 1
Records == 0 .. TT_RECORDS_PER_PAGE - 1
PageSectors == 0 .. SECTORS_PER_PAGE - 1

\* PhysicalPageState
UNKNOWN == 0
USED == 1
ERASE_REQUIRED == 2
ERASED == 3

\* ProgramMode
NONE == 0
PROGRAM == 1
ERASE_PROGRAM == 2
RELOCATE_ERASE_PROGRAM == 3

-----------------------------------------------------------------------------
(* x bound to the result of a call, as a local variable of the C code is.  *)

With(result, Body(_)) == Body(result)

-----------------------------------------------------------------------------
(* Machine integers.                                                       *)

Pow2(n) == 2 ^ n
ALL16 == Pow2(16) - 1

\* a uint32_t is kept as its two 16 bit halves
ALL32 == [hi |-> ALL16, lo |-> ALL16]
Nat32(n) == [hi |-> n \div Pow2(16), lo |-> n % Pow2(16)]
Inc32(x) ==
    IF x.lo = ALL16 THEN [hi |-> (x.hi + 1) % Pow2(16), lo |-> 0]
    ELSE [hi |-> x.hi, lo |-> x.lo + 1]
Gt32(a, b) == a.hi > b.hi \/ (a.hi = b.hi /\ a.lo > b.lo)
\* x + n, x / d and x % d for a uint32_t x and small n and d
Add32(x, n) ==
    [hi |-> (x.hi + (x.lo + n) \div Pow2(16)) % Pow2(16), lo |-> (x.lo + n) % Pow2(16)]
Div32(x, d) ==
    [hi |-> x.hi \div d, lo |-> ((x.hi % d) * Pow2(16) + x.lo) \div d]
Mod32(x, d) == ((x.hi % d) * Pow2(16) + x.lo) % d
SECT_ALL == Pow2(SECTORS_PER_PAGE) - 1

RECURSIVE BitAnd(_, _)
BitAnd(a, b) ==
    IF a = 0 \/ b = 0 THEN 0
    ELSE (a % 2) * (b % 2) + 2 * BitAnd(a \div 2, b \div 2)

RECURSIVE BitXor(_, _)
BitXor(a, b) ==
    IF a = 0 THEN b
    ELSE IF b = 0 THEN a
    ELSE ((a + b) % 2) + 2 * BitXor(a \div 2, b \div 2)

\* a & b for two values of a field whose all-ones value is all
AndField(a, b, all) ==
    IF a = all THEN b ELSE IF b = all THEN a ELSE IF a = b THEN a ELSE BitAnd(a, b)

And32(a, b) == [hi |-> AndField(a.hi, b.hi, ALL16), lo |-> AndField(a.lo, b.lo, ALL16)]

ToU16(x) == x % Pow2(16)
ToInt16(x) == IF ToU16(x) >= Pow2(15) THEN ToU16(x) - Pow2(16) ELSE ToU16(x)

\* bit b of v inverted
FlipBit(v, b) == IF (v \div Pow2(b)) % 2 = 1 THEN v - Pow2(b) ELSE v + Pow2(b)
FlipBit32(x, b) ==
    IF b < 16 THEN [x EXCEPT !.lo = FlipBit(@, b)] ELSE [x EXCEPT !.hi = FlipBit(@, b - 16)]

-----------------------------------------------------------------------------
(* A page: the union of TransTable and data[PAGE_SIZE].  The header and    *)
(* the records are kept as fields, the sectors as the set of payload bits  *)
(* that are still 1.                                                       *)

PayloadBits == {"x", "y"}
SectorFF == PayloadBits
Payloads == {{"x"}, {"y"}}

ErasedInfo == [physicalPageNo |-> -1, sectStatus |-> SECT_ALL]

ErasedHeader ==
    [magicStart |-> ALL32, logicalPageNo |-> ALL32, serial |-> ALL32,
     padding |-> ALL16, crc16 |-> ALL16]

ErasedPage ==
    [header |-> ErasedHeader,
     pageInfos |-> [r \in Records |-> ErasedInfo],
     data |-> [x \in PageSectors |-> SectorFF]]

\* a page programmed to all zeroes: content left by an earlier user of the chip
ZeroPage ==
    [header |-> [magicStart |-> Nat32(0), logicalPageNo |-> Nat32(0), serial |-> Nat32(0),
                 padding |-> 0, crc16 |-> 0],
     pageInfos |-> [r \in Records |-> [physicalPageNo |-> 0, sectStatus |-> 0]],
     data |-> [x \in PageSectors |-> {}]]

AndInfo(a, b) ==
    [physicalPageNo |->
         ToInt16(AndField(ToU16(a.physicalPageNo), ToU16(b.physicalPageNo), ALL16)),
     sectStatus |-> AndField(a.sectStatus, b.sectStatus, SECT_ALL)]

AndHeader(a, b) ==
    [magicStart |-> And32(a.magicStart, b.magicStart),
     logicalPageNo |-> And32(a.logicalPageNo, b.logicalPageNo),
     serial |-> And32(a.serial, b.serial),
     padding |-> AndField(a.padding, b.padding, ALL16),
     crc16 |-> AndField(a.crc16, b.crc16, ALL16)]

\* what a page holds after programming new over old: bits only go from 1 to 0
AndPage(old, new) ==
    IF old = ErasedPage THEN new
    ELSE [header |-> AndHeader(old.header, new.header),
          pageInfos |-> [r \in Records |-> AndInfo(old.pageInfos[r], new.pageInfos[r])],
          data |-> [x \in PageSectors |-> old.data[x] \cap new.data[x]]]

-----------------------------------------------------------------------------
(* crc16(CRC_1021, buf, len, 0xffff): CRC-16, polynomial 0x1021, most      *)
(* significant bit first.                                                  *)

CrcShift(crc) ==
    IF crc >= Pow2(15) THEN BitXor((crc * 2) % Pow2(16), 4129)
    ELSE crc * 2

RECURSIVE CrcBits(_, _)
CrcBits(crc, n) == IF n = 0 THEN crc ELSE CrcBits(CrcShift(crc), n - 1)

CrcByte(crc, byte) == CrcBits(BitXor(crc, byte * Pow2(8)), 8)

RECURSIVE crc16(_, _, _)
crc16(bytes, i, crc) ==
    IF i > Len(bytes) \/ crc < 0 THEN crc ELSE crc16(bytes, i + 1, CrcByte(crc, bytes[i]))

\* the bytes of a little-endian unsigned integer
LeBytes(v, n) == [i \in 1 .. n |-> (v \div Pow2(8 * (i - 1))) % Pow2(8)]

\* calcCRC also stores 0xffff in the padding of the header it is given
WithPadding(header) == [header EXCEPT !.padding = ALL16]

LeBytes32(x) == LeBytes(x.lo, 2) \o LeBytes(x.hi, 2)

\* a checksum that leaves the serial out
CalcCRCNoSerial(header) ==
    crc16(LeBytes32(header.magicStart) \o LeBytes32(header.logicalPageNo)
              \o LeBytes(ALL16, 2),
          1, ALL16)

calcCRC(header) ==
    crc16(LeBytes32(header.magicStart) \o LeBytes32(header.logicalPageNo)
              \o LeBytes32(header.serial) \o LeBytes(ALL16, 2),
          1, ALL16)

-----------------------------------------------------------------------------
(* The world an operation runs in: the flash, the FrFTL structure and the  *)
(* HAL's bookkeeping.  hal.calls counts the flashRead, flashErase and      *)
(* flashProgram calls of the running operation; the call numbered          *)
(* hal.failAt returns false and leaves the flash as it is (0: none does);   *)
(* hal.failed then names that call.  hal.log lists the flashErase and      *)
(* flashProgram calls in the order they are made, each with the logical    *)
(* page and the program mode of the buffer it is made for and with         *)
(* whether the page was all-ones when it was made; hal.probes counts the   *)
(* isFlashErased calls; hal.moved and hal.taken tell of a payload copied    *)
(* into a slot of another logical page and of an allocation of a page that *)
(* is taken.  hal.media is the flash as the last program of a master table *)
(* left it (as the call found it, before one), hal.master the page of that *)
(* master table; hal.from is the page the buffer programmed next is on and *)
(* hal.syncs counts the ftlSync calls.                                     *)

\* the page physicalPageNo holds the master table of the flash f, or that
\* table refers to it, in its own records or in those of a secondary table
Live(f, mtt, physicalPageNo) ==
    \/ physicalPageNo = mtt
    \/ \E r \in Records : f[mtt].pageInfos[r].physicalPageNo = physicalPageNo
    \/ \E t \in 1 .. ttPageCount - 1 :
          /\ ToU16(f[mtt].pageInfos[t].physicalPageNo) \in PhysPages
          /\ \E r \in Records :
                f[ToU16(f[mtt].pageInfos[t].physicalPageNo)].pageInfos[r].physicalPageNo
                    = physicalPageNo

World(f, t, failAt) ==
    [flash |-> f, ftl |-> t,
     hal |-> [calls |-> 0, failAt |-> failAt, programs |-> 0, erases |-> 0,
              failed |-> "none", log |-> <<>>, lpn |-> -1, mode |-> NONE,
              moved |-> FALSE, taken |-> FALSE,
              probes |-> 0, media |-> f, master |-> t.mttPhysicalPageNo,
              from |-> -1, syncs |-> 0]]

HalCall(w) == [w EXCEPT !.hal.calls = @ + 1]
HalFails(w) == w.hal.calls + 1 = w.hal.failAt
HalFailed(w, call) == [HalCall(w) EXCEPT !.hal.failed = call]
Logged(w, kind, pageNo, ok, clean) ==
    [w EXCEPT !.hal.log = Append(@, [kind |-> kind, page |-> pageNo, ok |-> ok,
                                     lpn |-> w.hal.lpn, mode |-> w.hal.mode,
                                     clean |-> clean,
                                     live |-> Live(w.hal.media, w.hal.master, pageNo),
                                     from |-> w.hal.from, sync |-> w.hal.syncs])]

\* a master table that is programmed is the one on the flash from then on
Committed(w, pageNo) ==
    IF w.hal.lpn = 0 THEN [w EXCEPT !.hal.media = w.flash, !.hal.master = pageNo] ELSE w

\* the logical page on whose behalf the flash is erased and programmed next,
\* and the program mode of its buffer
OnBehalf(w, logicalPageNo, pMode, physicalPageNo) ==
    [w EXCEPT !.hal.lpn = logicalPageNo, !.hal.mode = pMode, !.hal.from = physicalPageNo]

\* the flashProgram call that writes the master table is told apart
ProgramOf(page) ==
    IF page.header.magicStart = TT_PAGE_MAGIC /\ page.header.logicalPageNo = Nat32(0)
    THEN "programMTT"
    ELSE "program"

\* a read beyond the end of the device is refused
flashRead(w, pageNo) ==
    IF HalFails(w) \/ pageNo \notin PhysPages THEN [w |-> HalFailed(w, "read"), ok |-> FALSE, page |-> ErasedPage]
    ELSE [w |-> HalCall(w), ok |-> TRUE, page |-> w.flash[pageNo]]

flashProgram(w, pageNo, page) ==
    IF HalFails(w)
    THEN [w |-> Logged(HalFailed(w, ProgramOf(page)), "program", pageNo, FALSE,
                       w.flash[pageNo] = ErasedPage),
          ok |-> FALSE]
    ELSE [w |-> Committed(Logged([HalCall(w) EXCEPT !.flash[pageNo] = AndPage(@, page),
                                                    !.hal.programs = @ + 1],
                                 "program", pageNo, TRUE, w.flash[pageNo] = ErasedPage),
                          pageNo),
          ok |-> TRUE]

flashErase(w, pageNo) ==
    IF HalFails(w) THEN [w |-> Logged(HalFailed(w, "erase"), "erase", pageNo, FALSE,
                                   w.flash[pageNo] = ErasedPage),
                       ok |-> FALSE]
    ELSE [w |-> Logged([HalCall(w) EXCEPT !.flash[pageNo] = ErasedPage,
                                          !.hal.erases = @ + 1],
                       "erase", pageNo, TRUE, w.flash[pageNo] = ErasedPage),
          ok |-> TRUE]

\* a probe that takes every page for erased
AlwaysErased(w, pageNo) == TRUE

isFlashErased(w, pageNo) == w.flash[pageNo] = ErasedPage

-----------------------------------------------------------------------------
(* Physical page state map.                                                *)

getPhysicalPageState(w, physicalPageNo) == w.ftl.physicalPageState[physicalPageNo]

setPhysicalPageState(w, physicalPageNo, state) ==
    [w EXCEPT !.ftl.physicalPageState[physicalPageNo] = state]

NextPage(idx) == IF idx + 1 >= physicalPageCount THEN 0 ELSE idx + 1

\* the place of page p in the circular order that starts at idx
TurnOf(idx, p) == (p - idx) % physicalPageCount

\* a loop that sets the flag whether or not it ended early
ResolveAndLatch(w, idx, count) ==
    LET unknown == {p \in PhysPages : getPhysicalPageState(w, p) = UNKNOWN}
        resolved == {p \in unknown :
                        Cardinality({q \in unknown : TurnOf(idx, q) < TurnOf(idx, p)})
                            < count}
    IN  [w EXCEPT !.ftl.physicalPageState =
                      [p \in PhysPages |->
                          IF p \in resolved
                          THEN IF w.flash[p] = ErasedPage THEN ERASED ELSE ERASE_REQUIRED
                          ELSE @[p]],
                  !.ftl.physicalPageStateResolved = TRUE,
                  !.hal.probes = @ + Cardinality(resolved)]

\* the loop of resolveUnknownState, started at idx: the UNKNOWN pages are
\* resolved in circular order until count of them are; earlyEnd is the break
\* that the last of the count takes
ResolveLoop(w, idx, count) ==
    LET unknown == {p \in PhysPages : getPhysicalPageState(w, p) = UNKNOWN}
        resolved == {p \in unknown :
                        Cardinality({q \in unknown : TurnOf(idx, q) < TurnOf(idx, p)})
                            < count}
        earlyEnd == Cardinality(unknown) >= count
    IN  [w EXCEPT !.ftl.physicalPageState =
                      [p \in PhysPages |->
                          IF p \in resolved
                          THEN IF isFlashErased(w, p) THEN ERASED ELSE ERASE_REQUIRED
                          ELSE @[p]],
                  !.ftl.physicalPageStateResolved = ~earlyEnd,
                  !.hal.probes = @ + Cardinality(resolved)]

resolveUnknownState(w, count) ==
    IF w.ftl.physicalPageStateResolved THEN w
    ELSE ResolveLoop(w, w.ftl.writeFrontier, count)

-----------------------------------------------------------------------------
(* Page buffer cache.  lru[j] is the slot at rank j, rank 0 the most       *)
(* recently used (the lru field of slot j in the source).  A buffer is     *)
(* named by its slot number, NULL is -1.                                   *)

NULL == 0 - 1

Buf(w, b) == w.ftl.pageBuffer[b]

\* the "Update LRU" loop: slot idx moves to rank 0
PromoteLru(lru, idx) ==
    LET j == CHOOSE r \in Slots : lru[r] = idx
    IN  IF j > 0
        THEN [r \in Slots |-> IF r = 0 THEN idx ELSE IF r <= j THEN lru[r - 1] ELSE lru[r]]
        ELSE lru

findPhysicalPageInBuffer(w, physicalPageNo) ==
    LET hits == {i \in Slots : Buf(w, i).physicalPageNo = physicalPageNo}
    IN  IF hits = {} THEN [w |-> w, b |-> NULL]
        ELSE LET i == CHOOSE x \in hits : \A y \in hits : x <= y
             IN  [w |-> [w EXCEPT !.ftl.lru = PromoteLru(@, i)], b |-> i]

\* the slot the eviction scan stops at: the unlocked slot of highest rank,
\* or the slot of rank 0 when every slot is locked
VictimSlot(w) ==
    LET free == {r \in Slots : ~Buf(w, w.ftl.lru[r]).lock}
    IN  IF free = {} THEN w.ftl.lru[0]
        ELSE w.ftl.lru[CHOOSE r \in free : \A q \in free : q <= r]

loadPhysicalPageInBuffer(w, logicalPageNo, physicalPageNo) ==
    With(findPhysicalPageInBuffer(w, physicalPageNo), LAMBDA found :
    IF found.b # NULL THEN found
    ELSE With(VictimSlot(w), LAMBDA v :
    IF Buf(w, v).lock THEN [w |-> w, b |-> NULL]
    ELSE With(flashRead([w EXCEPT !.ftl.pageBuffer[v].physicalPageNo = -1],
                        physicalPageNo), LAMBDA rd :
    IF ~rd.ok THEN [w |-> rd.w, b |-> NULL]
    ELSE [w |-> [rd.w EXCEPT
                     !.ftl.pageBuffer[v] =
                         [logicalPageNo |-> ToInt16(logicalPageNo),
                          physicalPageNo |-> ToInt16(physicalPageNo),
                          lock |-> FALSE, pMode |-> NONE, page |-> rd.page],
                     !.ftl.lru = PromoteLru(@, v)],
          b |-> v])))

initPhysicalPageInBuffer(w, logicalPageNo, physicalPageNo) ==
    With(findPhysicalPageInBuffer(w, physicalPageNo), LAMBDA found :
    IF found.b # NULL THEN found
    ELSE With(VictimSlot(w), LAMBDA v :
    IF Buf(w, v).lock THEN [w |-> w, b |-> NULL]
    ELSE [w |-> [w EXCEPT !.ftl.pageBuffer[v] =
                              [logicalPageNo |-> ToInt16(logicalPageNo),
                               physicalPageNo |-> ToInt16(physicalPageNo),
                               lock |-> TRUE, pMode |-> ERASE_PROGRAM,
                               page |-> ErasedPage]],
          b |-> v]))

\* a test that is content with one free buffer
HasOneFreeBuffer(w, bufferCount) == \E i \in Slots : ~Buf(w, i).lock

hasFreeBuffers(w, bufferCount) ==
    Cardinality({i \in Slots : ~Buf(w, i).lock}) >= bufferCount

-----------------------------------------------------------------------------
(* Translation table engine.  A result carries ok (the bool returned) and  *)
(* the PageInfo read, which is meaningful only when ok.                    *)

readPhysicalSector(w, logicalPageNo, physicalPageNo, pageSectorNo) ==
    With(loadPhysicalPageInBuffer(w, logicalPageNo, physicalPageNo), LAMBDA ld :
    IF ld.b # NULL
    THEN [w |-> ld.w, ok |-> TRUE, data |-> Buf(ld.w, ld.b).page.data[pageSectorNo]]
    ELSE [w |-> ld.w, ok |-> FALSE, data |-> SectorFF])

readPhysicalPageInfo(w, logicalPageNo, physicalPageNo, recordNo) ==
    With(loadPhysicalPageInBuffer(w, logicalPageNo, physicalPageNo), LAMBDA ld :
    IF ld.b # NULL
    THEN [w |-> ld.w, ok |-> TRUE, info |-> Buf(ld.w, ld.b).page.pageInfos[recordNo]]
    ELSE [w |-> ld.w, ok |-> FALSE, info |-> ErasedInfo])

readPageInfo(w, logicalPageNo) ==
    IF logicalPageNo < TT_RECORDS_PER_PAGE
    THEN readPhysicalPageInfo(w, 0, w.ftl.mttPhysicalPageNo, logicalPageNo)
    ELSE With(readPhysicalPageInfo(w, 0, w.ftl.mttPhysicalPageNo,
                                   logicalPageNo \div TT_RECORDS_PER_PAGE),
              LAMBDA secondaryTTInfo :
         IF ~secondaryTTInfo.ok THEN secondaryTTInfo
         ELSE readPhysicalPageInfo(secondaryTTInfo.w,
                                   logicalPageNo \div TT_RECORDS_PER_PAGE,
                                   ToU16(secondaryTTInfo.info.physicalPageNo),
                                   logicalPageNo % TT_RECORDS_PER_PAGE))

updatePhysicalPageInfo(w, pageInfo, logicalPageNo, physicalPageNo, recordNo) ==
    With(loadPhysicalPageInBuffer(w, logicalPageNo, physicalPageNo), LAMBDA ld :
    IF ld.b = NULL THEN [w |-> ld.w, ok |-> FALSE]
    ELSE [w |-> [ld.w EXCEPT
                     !.ftl.pageBuffer[ld.b].lock = TRUE,
                     !.ftl.pageBuffer[ld.b].pMode = IF @ = NONE THEN PROGRAM ELSE @,
                     !.ftl.pageBuffer[ld.b].page.pageInfos[recordNo] = pageInfo],
          ok |-> TRUE])

updatePageInfo(w, pageInfo, logicalPageNo) ==
    IF logicalPageNo < TT_RECORDS_PER_PAGE
    THEN updatePhysicalPageInfo(w, pageInfo, 0, w.ftl.mttPhysicalPageNo, logicalPageNo)
    ELSE With(readPhysicalPageInfo(w, 0, w.ftl.mttPhysicalPageNo,
                                   logicalPageNo \div TT_RECORDS_PER_PAGE),
              LAMBDA secondaryTTInfo :
         IF ~secondaryTTInfo.ok THEN [w |-> secondaryTTInfo.w, ok |-> FALSE]
         ELSE updatePhysicalPageInfo(secondaryTTInfo.w, pageInfo,
                                     logicalPageNo \div TT_RECORDS_PER_PAGE,
                                     ToU16(secondaryTTInfo.info.physicalPageNo),
                                     logicalPageNo % TT_RECORDS_PER_PAGE))

-----------------------------------------------------------------------------
(* Allocator and write frontier.                                           *)

\* the pages from the write frontier on, in circular order
\* the page on physicalPageNo as the FTL sees it: the cached one, else the
\* one on the flash
PageView(w, physicalPageNo) ==
    IF \E i \in Slots : Buf(w, i).physicalPageNo = physicalPageNo
    THEN Buf(w, CHOOSE i \in Slots : Buf(w, i).physicalPageNo = physicalPageNo).page
    ELSE IF physicalPageNo \in PhysPages THEN w.flash[physicalPageNo]
    ELSE ErasedPage

\* the PageInfo that readPageInfo gives for a logical page
InfoView(w, logicalPageNo) ==
    IF logicalPageNo < TT_RECORDS_PER_PAGE
    THEN PageView(w, w.ftl.mttPhysicalPageNo).pageInfos[logicalPageNo]
    ELSE PageView(w, ToU16(PageView(w, w.ftl.mttPhysicalPageNo)
                               .pageInfos[logicalPageNo \div TT_RECORDS_PER_PAGE]
                               .physicalPageNo))
             .pageInfos[logicalPageNo % TT_RECORDS_PER_PAGE]

\* the logical pages: the translation table pages, then the data pages
LogicalPages == 0 .. usableSectorCount \div SECTORS_PER_PAGE + ttPageCount - 1

\* the physical pages that the translation table records for a logical page
Claimed(w) ==
    {w.ftl.mttPhysicalPageNo}
        \cup {InfoView(w, l).physicalPageNo :
                 l \in {x \in LogicalPages : InfoView(w, x).physicalPageNo >= 0}}

\* the pages of the data slots that wait, locked, for their program
Pending(w) ==
    {Buf(w, i).physicalPageNo :
        i \in {x \in Slots : Buf(w, x).lock /\ Buf(w, x).logicalPageNo >= ttPageCount}}

\* the physical page is taken: the translation table records it for a
\* logical page, or a locked slot holds it
Held(w, physicalPageNo) ==
    LET mtt == PageView(w, w.ftl.mttPhysicalPageNo)
        tt == [t \in 0 .. ttPageCount - 1 |->
                  IF t = 0 THEN mtt
                  ELSE PageView(w, ToU16(mtt.pageInfos[t].physicalPageNo))]
    IN  \/ physicalPageNo = w.ftl.mttPhysicalPageNo
        \/ \E i \in Slots : Buf(w, i).lock /\ Buf(w, i).physicalPageNo = physicalPageNo
        \/ \E l \in LogicalPages :
               tt[l \div TT_RECORDS_PER_PAGE].pageInfos[l % TT_RECORDS_PER_PAGE]
                   .physicalPageNo = physicalPageNo

FrontierOrder(w) ==
    [k \in 0 .. physicalPageCount - 1 |-> (w.ftl.writeFrontier + k) % physicalPageCount]

\* an allocator that scans from page 0 instead of the write frontier
AllocateFromStart(w) ==
    LET free == {p \in PhysPages : getPhysicalPageState(w, p) # USED}
    IN  IF free = {} THEN [w |-> w, page |-> -1]
        ELSE LET page == CHOOSE p \in free : \A q \in free : p <= q
             IN  [w |-> [w EXCEPT !.ftl.writeFrontier = NextPage(page),
                                  !.hal.taken = @ \/ Held(w, page)],
                  page |-> page]

\* an allocator that takes the page at the frontier without a look at its state
AllocateAtFrontier(w) ==
    [w |-> [w EXCEPT !.ftl.writeFrontier = NextPage(@)], page |-> w.ftl.writeFrontier]

allocatePhysicalPage(w) ==
    LET order == FrontierOrder(w)
        free == {k \in DOMAIN order : getPhysicalPageState(w, order[k]) # USED}
    IN  IF free = {}
        THEN \* lookupCount exceeds physicalPageCount after one more step than a turn
             [w |-> [w EXCEPT !.ftl.writeFrontier = NextPage(@)], page |-> -1]
        ELSE LET k == CHOOSE x \in free : \A y \in free : x <= y
             IN  [w |-> [w EXCEPT !.ftl.writeFrontier = NextPage(order[k]),
                                  !.hal.taken = @ \/ Held(w, order[k])],
                  page |-> order[k]]

-----------------------------------------------------------------------------
(* Program engine.                                                         *)

\* a relocation that leaves the serial as it is
RelocatedTTSameSerial(buffer, newPhysicalPageNo) ==
    LET p1 == IF buffer.logicalPageNo = 0
              THEN [buffer.page EXCEPT !.pageInfos[0].physicalPageNo = newPhysicalPageNo]
              ELSE buffer.page
    IN  With(WithPadding(p1.header), LAMBDA h1 :
        [buffer EXCEPT !.page = [p1 EXCEPT !.header = [h1 EXCEPT !.crc16 = calcCRC(h1)]]])

\* the buffer of a translation table page about to move to newPhysicalPageNo
RelocatedTT(buffer, newPhysicalPageNo) ==
    LET p1 == IF buffer.logicalPageNo = 0
              THEN [buffer.page EXCEPT !.pageInfos[0].physicalPageNo = newPhysicalPageNo]
              ELSE buffer.page
    IN  With(WithPadding([p1.header EXCEPT !.serial = Inc32(@)]), LAMBDA h1 :
        [buffer EXCEPT !.page = [p1 EXCEPT !.header = [h1 EXCEPT !.crc16 = calcCRC(h1)]]])

\* RELOCATE_ERASE_PROGRAM erases the new page unless this page is ERASED
RelocateEraseTest(w, buffer, newPhysicalPageNo) ==
    getPhysicalPageState(w, buffer.physicalPageNo) # ERASED

\* flashErase when the test asks for it
EraseIf(test, w, pageNo) == IF test THEN flashErase(w, pageNo) ELSE [w |-> w, ok |-> TRUE]

\* case PROGRAM
ProgramOnly(w, b) ==
    With(flashProgram(w, Buf(w, b).physicalPageNo, Buf(w, b).page), LAMBDA pg :
    IF ~pg.ok THEN [w |-> pg.w, ok |-> FALSE]
    ELSE [w |-> setPhysicalPageState(pg.w, Buf(w, b).physicalPageNo, USED), ok |-> TRUE])

\* an erase and program that leaves the state of the page as it is
EraseProgramNoMark(w, b) ==
    With(EraseIf(getPhysicalPageState(w, Buf(w, b).physicalPageNo) # ERASED,
                 w, Buf(w, b).physicalPageNo), LAMBDA er :
    IF ~er.ok THEN [w |-> er.w, ok |-> FALSE]
    ELSE With(flashProgram(er.w, Buf(w, b).physicalPageNo, Buf(w, b).page), LAMBDA pg :
    [w |-> pg.w, ok |-> pg.ok]))

\* case ERASE_PROGRAM
EraseProgram(w, b) ==
    With(EraseIf(getPhysicalPageState(w, Buf(w, b).physicalPageNo) # ERASED,
                 w, Buf(w, b).physicalPageNo), LAMBDA er :
    IF ~er.ok THEN [w |-> er.w, ok |-> FALSE]
    ELSE With(flashProgram(er.w, Buf(w, b).physicalPageNo, Buf(w, b).page), LAMBDA pg :
    IF ~pg.ok THEN [w |-> pg.w, ok |-> FALSE]
    ELSE [w |-> setPhysicalPageState(pg.w, Buf(w, b).physicalPageNo, USED), ok |-> TRUE]))

\* a relocation that leaves the old page USED
RelocateKeepOld(w, b, nb, new) ==
    With(EraseIf(RelocateEraseTest(w, nb, new), w, new), LAMBDA er :
    IF ~er.ok THEN [w |-> er.w, ok |-> FALSE]
    ELSE With(flashProgram(er.w, new, nb.page), LAMBDA pg :
    IF ~pg.ok THEN [w |-> pg.w, ok |-> FALSE]
    ELSE [w |-> [pg.w EXCEPT
                     !.ftl.physicalPageState[new] = USED,
                     !.ftl.pageBuffer[b].physicalPageNo = new,
                     !.ftl.mttPhysicalPageNo = IF nb.logicalPageNo = 0 THEN new ELSE @],
          ok |-> TRUE]))

\* case RELOCATE_ERASE_PROGRAM, once the buffer nb is ready to go to page new
RelocateTo(w, b, nb, new) ==
    With(EraseIf(RelocateEraseTest(w, nb, new), w, new), LAMBDA er :
    IF ~er.ok THEN [w |-> er.w, ok |-> FALSE]
    ELSE With(flashProgram(er.w, new, nb.page), LAMBDA pg :
    IF ~pg.ok THEN [w |-> pg.w, ok |-> FALSE]
    ELSE [w |-> [pg.w EXCEPT
                     !.ftl.physicalPageState =
                         [@ EXCEPT ![nb.physicalPageNo] = ERASE_REQUIRED, ![new] = USED],
                     !.ftl.pageBuffer[b].physicalPageNo = new,
                     !.ftl.mttPhysicalPageNo = IF nb.logicalPageNo = 0 THEN new ELSE @],
          ok |-> TRUE]))

\* case RELOCATE_ERASE_PROGRAM
RelocateEraseProgram(w, b) ==
    With(allocatePhysicalPage(w), LAMBDA al :
    IF al.page < 0 THEN [w |-> al.w, ok |-> FALSE]
    ELSE With(IF Buf(w, b).logicalPageNo < ttPageCount
              THEN RelocatedTT(Buf(w, b), al.page)
              ELSE Buf(w, b), LAMBDA nb :
         RelocateTo([al.w EXCEPT !.ftl.pageBuffer[b] = nb], b, nb, al.page)))

programPageInBuffer(w, b) ==
    CASE Buf(w, b).pMode = PROGRAM ->
             ProgramOnly(OnBehalf(w, Buf(w, b).logicalPageNo, PROGRAM,
                                  Buf(w, b).physicalPageNo), b)
      [] Buf(w, b).pMode = ERASE_PROGRAM ->
             EraseProgram(OnBehalf(w, Buf(w, b).logicalPageNo, ERASE_PROGRAM,
                                   Buf(w, b).physicalPageNo), b)
      [] Buf(w, b).pMode = RELOCATE_ERASE_PROGRAM ->
             RelocateEraseProgram(OnBehalf(w, Buf(w, b).logicalPageNo,
                                           RELOCATE_ERASE_PROGRAM,
                                           Buf(w, b).physicalPageNo), b)
      [] OTHER -> [w |-> w, ok |-> TRUE]

-----------------------------------------------------------------------------
(* ftlSync.                                                                *)

SyncBegun(w) == [w EXCEPT !.hal.syncs = @ + 1]

\* an unlock that forgets the lock
KeepLocked(w, b) == [w EXCEPT !.ftl.pageBuffer[b].pMode = NONE]

Unlocked(w, b) ==
    [w EXCEPT !.ftl.pageBuffer[b].lock = FALSE, !.ftl.pageBuffer[b].pMode = NONE]

\* "Update PageInfo in TT pages" for the data page of slot i, and its unlock
UpdateTTOf(w, i) ==
    With(readPageInfo(w, Buf(w, i).logicalPageNo), LAMBDA rd :
    IF ~rd.ok THEN [w |-> rd.w, ok |-> FALSE]
    ELSE With(updatePageInfo(rd.w,
                             [rd.info EXCEPT !.physicalPageNo = Buf(rd.w, i).physicalPageNo],
                             Buf(rd.w, i).logicalPageNo), LAMBDA up :
    IF ~up.ok THEN [w |-> up.w, ok |-> FALSE]
    ELSE [w |-> Unlocked(up.w, i), ok |-> TRUE]))

\* "First program data pages": the loop from slot i on
RECURSIVE SyncDataPages(_, _)

\* the data page of slot i: program it, update its PageInfo, unlock it
SyncDataPage(pg, i) ==
    IF ~pg.ok THEN [w |-> pg.w, ok |-> FALSE] ELSE UpdateTTOf(pg.w, i)

SyncDataNext(up, i) == IF ~up.ok THEN up ELSE SyncDataPages(up.w, i + 1)

SyncDataPages(w, i) ==
    IF i >= pageBufferSize THEN [w |-> w, ok |-> TRUE]
    ELSE IF Buf(w, i).lock /\ Buf(w, i).logicalPageNo >= ttPageCount
    THEN SyncDataNext(SyncDataPage(programPageInBuffer(w, i), i), i)
    ELSE SyncDataPages(w, i + 1)

\* "Second program STT pages": the loop from slot i on
RECURSIVE SyncSttPages(_, _, _)

\* the secondary table of slot i, programmed: "Update PageInfo in MTT page"
\* and unlock
SyncSttPage(pg, i, mttBuffer) ==
    IF ~pg.ok THEN [w |-> pg.w, ok |-> FALSE]
    ELSE [w |-> Unlocked([pg.w EXCEPT
                              !.ftl.pageBuffer[mttBuffer].page
                                  .pageInfos[Buf(pg.w, i).logicalPageNo].physicalPageNo =
                                      Buf(pg.w, i).physicalPageNo],
                         i),
          ok |-> TRUE]

SyncSttNext(st, i, mttBuffer) ==
    IF ~st.ok THEN st ELSE SyncSttPages(st.w, i + 1, mttBuffer)

SyncSttPages(w, i, mttBuffer) ==
    IF i >= pageBufferSize THEN [w |-> w, ok |-> TRUE]
    ELSE IF Buf(w, i).lock /\ Buf(w, i).logicalPageNo > 0
                           /\ Buf(w, i).logicalPageNo < ttPageCount
    THEN SyncSttNext(SyncSttPage(programPageInBuffer(w, i), i, mttBuffer), i, mttBuffer)
    ELSE SyncSttPages(w, i + 1, mttBuffer)

\* "Finally program MTT page"
SyncMttPage(w, mttBuffer) ==
    IF ~Buf(w, mttBuffer).lock THEN [w |-> w, ok |-> TRUE]
    ELSE With(programPageInBuffer(w, mttBuffer), LAMBDA pg :
         IF ~pg.ok THEN [w |-> pg.w, ok |-> FALSE]
         ELSE [w |-> Unlocked(pg.w, mttBuffer), ok |-> TRUE])

\* a sync that programs the secondary tables before the data pages
SyncTablesFirst(w) ==
    With(loadPhysicalPageInBuffer(SyncBegun(w), 0, w.ftl.mttPhysicalPageNo), LAMBDA mtt :
    IF mtt.b = NULL THEN [w |-> mtt.w, ok |-> FALSE]
    ELSE With(SyncSttPages(mtt.w, 0, mtt.b), LAMBDA stt :
    IF ~stt.ok THEN [w |-> stt.w, ok |-> FALSE]
    ELSE With(SyncDataPages(stt.w, 0), LAMBDA data :
    IF ~data.ok THEN [w |-> data.w, ok |-> FALSE]
    ELSE SyncMttPage(data.w, mtt.b))))

ftlSync(w) ==
    With(SyncDataPages(SyncBegun(w), 0), LAMBDA data :
    IF ~data.ok THEN [w |-> data.w, ok |-> FALSE]
    ELSE With(loadPhysicalPageInBuffer(data.w, 0, data.w.ftl.mttPhysicalPageNo),
              LAMBDA mtt :
    IF mtt.b = NULL THEN [w |-> mtt.w, ok |-> FALSE]
    ELSE With(SyncSttPages(mtt.w, 0, mtt.b), LAMBDA stt :
    IF ~stt.ok THEN [w |-> stt.w, ok |-> FALSE]
    ELSE SyncMttPage(stt.w, mtt.b))))

-----------------------------------------------------------------------------
(* ftlWriteSector.  A result carries ret (the bool returned) and ub, true  *)
(* when the call used a PageInfo that a failed readPageInfo left           *)
(* uninitialised, or a buffer pointer that was null.                       *)

Ret(w, ret) == [w |-> w, ret |-> ret, ub |-> FALSE]
Undefined(w) == [w |-> w, ret |-> FALSE, ub |-> TRUE]

SectTest(sectStatus, pageSectorNo) == (sectStatus \div Pow2(pageSectorNo)) % 2 = 1
SectClear(sectStatus, pageSectorNo) ==
    IF SectTest(sectStatus, pageSectorNo) THEN sectStatus - Pow2(pageSectorNo)
    ELSE sectStatus

LogicalPageOf(sectorNo) == (sectorNo \div SECTORS_PER_PAGE + ttPageCount) % Pow2(16)

\* the same for the uint32_t sectorNo of ftlWriteSector: the quotient is cut
\* to the uint16_t logicalPageNo
LogicalPageOf32(sectorNo) == Add32(Div32(sectorNo, SECTORS_PER_PAGE), ttPageCount).lo

\* lock of a translation table buffer "for later update" with relocation
LockForRelocation(w, b) ==
    [w EXCEPT !.ftl.pageBuffer[b].lock = TRUE,
              !.ftl.pageBuffer[b].pMode = RELOCATE_ERASE_PROGRAM]

\* "Read TT pages and lock it for later update"
LockTTPages(w, ttPageNo) ==
    With(readPageInfo(w, ttPageNo), LAMBDA rd :
    IF ~rd.ok THEN Ret(rd.w, FALSE)
    ELSE With(loadPhysicalPageInBuffer(rd.w, ttPageNo, ToU16(rd.info.physicalPageNo)),
              LAMBDA tt :
    IF tt.b = NULL THEN Undefined(tt.w)
    ELSE IF ttPageNo = 0 THEN Ret(LockForRelocation(tt.w, tt.b), TRUE)
    ELSE With(loadPhysicalPageInBuffer(LockForRelocation(tt.w, tt.b), 0,
                                       tt.w.ftl.mttPhysicalPageNo), LAMBDA mt :
    IF mt.b = NULL THEN Undefined(mt.w)
    ELSE Ret(LockForRelocation(mt.w, mt.b), TRUE))))

\* the memcpy of the payload into dataBuffer: hal.moved tells whether the
\* slot had gone to another logical page by then
Copied(w, dataBuffer, logicalPageNo, pageSectorNo, payload) ==
    [w EXCEPT !.ftl.pageBuffer[dataBuffer].page.data[pageSectorNo] = payload,
              !.hal.moved = @ \/ Buf(w, dataBuffer).logicalPageNo # logicalPageNo]

\* "Sector already written, use replace write"
ReplaceWrite(w, dataBuffer, logicalPageNo, pageSectorNo, payload) ==
    LockTTPages(Copied([w EXCEPT !.ftl.pageBuffer[dataBuffer].lock = TRUE,
                                 !.ftl.pageBuffer[dataBuffer].pMode = RELOCATE_ERASE_PROGRAM],
                       dataBuffer, logicalPageNo, pageSectorNo, payload),
                logicalPageNo \div TT_RECORDS_PER_PAGE)

\* an append that sets the mode whatever it was
AppendAlwaysProgram(w, dataBuffer, pageInfo, logicalPageNo, pageSectorNo, payload) ==
    With(updatePageInfo(w, [pageInfo EXCEPT !.sectStatus = SectClear(@, pageSectorNo)],
                        logicalPageNo), LAMBDA up :
    IF ~up.ok THEN Ret(up.w, FALSE)
    ELSE Ret([up.w EXCEPT
                  !.ftl.pageBuffer[dataBuffer].lock = TRUE,
                  !.ftl.pageBuffer[dataBuffer].pMode = PROGRAM,
                  !.ftl.pageBuffer[dataBuffer].page.data[pageSectorNo] = payload],
             TRUE))

\* "Sector never write, append information"
AppendWrite(w, dataBuffer, pageInfo, logicalPageNo, pageSectorNo, payload) ==
    With(updatePageInfo(w, [pageInfo EXCEPT !.sectStatus = SectClear(@, pageSectorNo)],
                        logicalPageNo), LAMBDA up :
    IF ~up.ok THEN Ret(up.w, FALSE)
    ELSE Ret(Copied([up.w EXCEPT
                         !.ftl.pageBuffer[dataBuffer].lock = TRUE,
                         !.ftl.pageBuffer[dataBuffer].pMode = IF @ = NONE THEN PROGRAM ELSE @],
                    dataBuffer, logicalPageNo, pageSectorNo, payload),
             TRUE))

\* from "uint8_t sectMask" on: the sector goes to dataBuffer
StoreSector(w, dataBuffer, pageInfo, logicalPageNo, pageSectorNo, payload) ==
    IF SectTest(pageInfo.sectStatus, pageSectorNo)
    THEN AppendWrite(w, dataBuffer, pageInfo, logicalPageNo, pageSectorNo, payload)
    ELSE ReplaceWrite(w, dataBuffer, logicalPageNo, pageSectorNo, payload)

\* "Allocate new physical page for uninitialized logical page": the result
\* carries the data buffer and the PageInfo the code goes on with
FreshPage(w, logicalPageNo) ==
    With(allocatePhysicalPage(w), LAMBDA al :
    IF al.page < 0 THEN [w |-> al.w, b |-> NULL, info |-> ErasedInfo]
    ELSE With(initPhysicalPageInBuffer(al.w, logicalPageNo, al.page), LAMBDA init :
    IF init.b = NULL THEN [w |-> init.w, b |-> NULL, info |-> ErasedInfo]
    ELSE With(updatePageInfo(init.w, [physicalPageNo |-> al.page, sectStatus |-> SECT_ALL],
                             logicalPageNo), LAMBDA up :
    [w |-> up.w, b |-> IF up.ok THEN init.b ELSE NULL,
     info |-> [physicalPageNo |-> al.page, sectStatus |-> SECT_ALL]])))

\* the page of a logical page that has one
MappedPage(w, logicalPageNo, pageInfo) ==
    With(loadPhysicalPageInBuffer(w, logicalPageNo, ToU16(pageInfo.physicalPageNo)),
         LAMBDA ld : [w |-> ld.w, b |-> ld.b, info |-> pageInfo])

\* the body of the while loop for one sector, after the free buffer check
WriteOneSector(w, sectorNo, payload) ==
    With(readPageInfo(w, LogicalPageOf32(sectorNo)), LAMBDA rd :
    IF ~rd.ok THEN Undefined(rd.w)
    ELSE With(IF rd.info.physicalPageNo < 0
              THEN FreshPage(rd.w, LogicalPageOf32(sectorNo))
              ELSE MappedPage(rd.w, LogicalPageOf32(sectorNo), rd.info), LAMBDA pg :
    IF pg.b = NULL THEN Ret(pg.w, FALSE)
    ELSE StoreSector(pg.w, pg.b, pg.info, LogicalPageOf32(sectorNo),
                     Mod32(sectorNo, SECTORS_PER_PAGE), payload)))

\* "Flush the buffers first if free space is not found"
FlushIfFull(w) == IF hasFreeBuffers(w, 3) THEN [w |-> w, ok |-> TRUE] ELSE ftlSync(w)

\* one turn of the while loop: the flush if needed, then the sector
WriteTurn(sy, sectorNo, payload) ==
    IF ~sy.ok THEN Ret(sy.w, FALSE) ELSE WriteOneSector(sy.w, sectorNo, payload)

\* the while loop: buf[k] is the payload of the k-th sector of the call.
\* flushed is the number of sectors of the call that an ftlSync made by the
\* loop has flushed (-1: the loop has made none).
RECURSIVE WriteLoop(_, _, _, _, _)

WriteNext(one, sectorNo, buf, k, flushed) ==
    IF one.ub \/ ~one.ret
    THEN [w |-> one.w, ret |-> one.ret, ub |-> one.ub, flushed |-> flushed]
    ELSE WriteLoop(one.w, Add32(sectorNo, 1), buf, k + 1, flushed)

WriteLoop(w, sectorNo, buf, k, flushed) ==
    IF k > Len(buf) THEN [w |-> w, ret |-> TRUE, ub |-> FALSE, flushed |-> flushed]
    ELSE WriteNext(WriteTurn(FlushIfFull(w), sectorNo, buf[k]), sectorNo, buf, k,
                   IF hasFreeBuffers(w, 3) THEN flushed ELSE k - 1)

\* startSectorNo is a uint32_t, and so is its sum with noOfSectors
ftlWriteSector(w, startSectorNo, noOfSectors, buf) ==
    IF Gt32(Add32(startSectorNo, noOfSectors), Nat32(usableSectorCount))
    THEN [w |-> resolveUnknownState(w, ttPageCount), ret |-> FALSE, ub |-> FALSE,
          flushed |-> -1]
    ELSE WriteLoop(resolveUnknownState(w, ttPageCount), startSectorNo, buf, 1, -1)

-----------------------------------------------------------------------------
(* ftlReadSector.  The result also carries data, the 512 bytes returned.   *)

\* a read that walks the page states forward first, as a write does
ReadSectorResolving(w, sectorNo) ==
    IF sectorNo >= usableSectorCount
    THEN [w |-> w, ret |-> FALSE, ub |-> FALSE, data |-> SectorFF]
    ELSE With(readPageInfo(resolveUnknownState(w, ttPageCount), LogicalPageOf(sectorNo)),
              LAMBDA rd :
         IF ~rd.ok
         THEN [w |-> rd.w, ret |-> FALSE, ub |-> TRUE, data |-> SectorFF]
         ELSE IF SectTest(rd.info.sectStatus, sectorNo % SECTORS_PER_PAGE)
         THEN [w |-> rd.w, ret |-> TRUE, ub |-> FALSE, data |-> SectorFF]
         ELSE With(readPhysicalSector(rd.w, LogicalPageOf(sectorNo),
                                      ToU16(rd.info.physicalPageNo),
                                      sectorNo % SECTORS_PER_PAGE), LAMBDA ps :
              [w |-> ps.w, ret |-> ps.ok, ub |-> FALSE, data |-> ps.data]))

ftlReadSector(w, sectorNo) ==
    IF sectorNo >= usableSectorCount
    THEN [w |-> w, ret |-> FALSE, ub |-> FALSE, data |-> SectorFF]
    ELSE With(readPageInfo(w, LogicalPageOf(sectorNo)), LAMBDA rd :
         IF ~rd.ok
         THEN [w |-> rd.w, ret |-> FALSE, ub |-> TRUE, data |-> SectorFF]
         ELSE IF SectTest(rd.info.sectStatus, sectorNo % SECTORS_PER_PAGE)
         THEN [w |-> rd.w, ret |-> TRUE, ub |-> FALSE, data |-> SectorFF]
         ELSE With(readPhysicalSector(rd.w, LogicalPageOf(sectorNo),
                                      ToU16(rd.info.physicalPageNo),
                                      sectorNo % SECTORS_PER_PAGE), LAMBDA ps :
              [w |-> ps.w, ret |-> ps.ok, ub |-> FALSE, data |-> ps.data]))

-----------------------------------------------------------------------------
(* Mount and format.                                                       *)

\* the FrFTL structure as ftlInit leaves it before loadFTL: calloc, then
\* initPageBuffer (the page of a slot is not read before it is loaded)
initPageBuffer ==
    [mttPhysicalPageNo |-> 0,
     writeFrontier |-> 0,
     physicalPageState |-> [p \in PhysPages |-> UNKNOWN],
     physicalPageStateResolved |-> FALSE,
     pageBuffer |-> [i \in Slots |->
                        [logicalPageNo |-> -1, physicalPageNo |-> -1, lock |-> FALSE,
                         pMode |-> NONE, page |-> ErasedPage]],
     lru |-> [i \in Slots |-> i]]

initTransTablePage(logicalPageNo) ==
    With([ErasedHeader EXCEPT !.magicStart = TT_PAGE_MAGIC,
                              !.logicalPageNo = Nat32(logicalPageNo),
                              !.serial = Nat32(1)], LAMBDA h :
    [ErasedPage EXCEPT !.header = [h EXCEPT !.crc16 = calcCRC(h)]])

\* a format that programs without erasing
FormatPageNoErase(w, pageNo, page) ==
    setPhysicalPageState(flashProgram(w, pageNo, page).w, pageNo, USED)

\* erase if the state map does not say ERASED, program, mark USED; the
\* results of the HAL calls are not looked at
FormatPage(w, pageNo, page) ==
    setPhysicalPageState(
        flashProgram(EraseIf(getPhysicalPageState(w, pageNo) # ERASED, w, pageNo).w,
                     pageNo, page).w,
        pageNo, USED)

\* the master table as createFTL fills it
FormatMTT ==
    [initTransTablePage(0) EXCEPT
         !.pageInfos = [r \in Records |->
                           IF r < ttPageCount
                           THEN [physicalPageNo |-> r, sectStatus |-> 0]
                           ELSE @[r]]]

\* the pages createFTL writes, from the secondary table i on, the master last
RECURSIVE FormatPages(_, _)
FormatPages(w, i) ==
    IF i = 0 THEN w
    ELSE FormatPages(FormatPage(w, i % ttPageCount,
                                IF i = ttPageCount THEN FormatMTT
                                ELSE initTransTablePage(i)),
                     IF i = ttPageCount THEN 0 ELSE i + 1)

createFTL(w) ==
    [FormatPages(resolveUnknownState([w EXCEPT !.ftl.writeFrontier = 0], pageBufferSize),
                 1)
        EXCEPT !.ftl.writeFrontier = ttPageCount]

\* the test loadFTL makes on the header of a page
IsMTT(header) ==
    /\ header.magicStart = TT_PAGE_MAGIC
    /\ header.logicalPageNo = Nat32(0)
    /\ header.crc16 = calcCRC(header)

\* a scan that keeps the first master table it meets
FirstMTT(header, currentSerial) == currentSerial = Nat32(0)

NewerMTT(header, currentSerial) == Gt32(header.serial, currentSerial)

\* "Scan for MTT".  The loop keeps the page whose serial passes the test
\* against the greatest serial met before it, 0 at the start: page p is taken
\* at its turn when it passes the test against 0 and against every master
\* table on a page before it, and the last page taken is the result (-1:
\* none).  A flashRead that fails leaves the header that is tested undefined.
ScanForMTT(w) ==
    IF w.hal.failAt > w.hal.calls /\ w.hal.failAt <= w.hal.calls + physicalPageCount
    THEN [w |-> [w EXCEPT !.hal.calls = w.hal.failAt, !.hal.failed = "read"],
          page |-> -1, ub |-> TRUE]
    ELSE LET found == {p \in PhysPages : IsMTT(w.flash[p].header)}
             taken == {p \in found :
                          /\ NewerMTT(w.flash[p].header, Nat32(0))
                          /\ \A q \in found :
                                 q < p => NewerMTT(w.flash[p].header,
                                                   w.flash[q].header.serial)}
         IN  [w |-> [w EXCEPT !.hal.calls = @ + physicalPageCount],
              page |-> IF taken = {} THEN -1
                       ELSE CHOOSE p \in taken : \A q \in taken : q <= p,
              ub |-> FALSE]

\* the pages that the records from record first on of a translation table
\* page refer to
ReferencedBy(page, first) ==
    {page.pageInfos[r].physicalPageNo :
        r \in {x \in Records : x >= first /\ page.pageInfos[x].physicalPageNo >= 0}}

MarkUsed(w, pages) ==
    [w EXCEPT !.ftl.physicalPageState =
                  [p \in PhysPages |-> IF p \in pages THEN USED ELSE @[p]]]

\* the inner loop of the walk: the records of the secondary table i, which
\* the master table has on currentPhysicalPageNo
WalkSTT(w, i, currentPhysicalPageNo) ==
    With(loadPhysicalPageInBuffer(w, i, ToU16(currentPhysicalPageNo)), LAMBDA stt :
    IF stt.b = NULL THEN [w |-> stt.w, ub |-> TRUE]
    ELSE IF \E p \in ReferencedBy(Buf(stt.w, stt.b).page, 0) : p >= physicalPageCount
    THEN [w |-> stt.w, ub |-> TRUE]
    ELSE [w |-> MarkUsed(stt.w, ReferencedBy(Buf(stt.w, stt.b).page, 0)), ub |-> FALSE])

\* the secondary tables of the walk, from the table i on
RECURSIVE WalkSTTs(_, _, _)

WalkNext(r, mtt, i) == IF r.ub THEN r ELSE WalkSTTs(r.w, mtt, i + 1)

WalkSTTs(w, mtt, i) ==
    IF i >= ttPageCount THEN [w |-> w, ub |-> FALSE]
    ELSE WalkNext(WalkSTT(w, i, Buf(w, mtt).page.pageInfos[i].physicalPageNo), mtt, i)

\* the walk over the records 1 and up of the MTT in the buffer mtt: every
\* page a record refers to is marked USED, and the secondary tables are
\* loaded and walked.  A record beyond the device has the state map written
\* out of its bounds.
WalkMTT(w, mtt) ==
    IF \E p \in ReferencedBy(Buf(w, mtt).page, 1) : p >= physicalPageCount
    THEN [w |-> w, ub |-> TRUE]
    ELSE WalkSTTs(MarkUsed(w, ReferencedBy(Buf(w, mtt).page, 1)), mtt, 1)

\* "MTT found, load data"
LoadFound(w, currentPhysicalMTTPageNo) ==
    With(loadPhysicalPageInBuffer(
             [w EXCEPT !.ftl.mttPhysicalPageNo = currentPhysicalMTTPageNo,
                       !.ftl.physicalPageState[currentPhysicalMTTPageNo] = USED,
                       !.ftl.writeFrontier = NextPage(currentPhysicalMTTPageNo)],
             0, currentPhysicalMTTPageNo), LAMBDA mtt :
    IF mtt.b = NULL THEN [w |-> mtt.w, found |-> TRUE, ub |-> TRUE]
    ELSE With(WalkMTT(mtt.w, mtt.b), LAMBDA walk :
    IF walk.ub THEN [w |-> walk.w, found |-> TRUE, ub |-> TRUE]
    ELSE [w |-> resolveUnknownState(walk.w, pageBufferSize),
          found |-> TRUE, ub |-> FALSE]))

loadFTL(w) ==
    With(ScanForMTT(w), LAMBDA scan :
    IF scan.ub THEN [w |-> scan.w, found |-> FALSE, ub |-> TRUE]
    ELSE IF scan.page < 0 THEN [w |-> scan.w, found |-> FALSE, ub |-> FALSE]
    ELSE LoadFound(scan.w, scan.page))

\* ftlInit for a supported flash size, on the flash f; failAt as in World.
\* found tells whether loadFTL found an FTL.
ftlInit(f, failAt) ==
    With(loadFTL(World(f, initPageBuffer, failAt)), LAMBDA ld :
    IF ld.ub THEN [w |-> ld.w, found |-> ld.found, ub |-> TRUE]
    ELSE IF ld.found THEN [w |-> ld.w, found |-> TRUE, ub |-> FALSE]
    ELSE [w |-> createFTL(ld.w), found |-> FALSE, ub |-> FALSE])

-----------------------------------------------------------------------------
(* The state machine: the API calls made on one FTL, one call per step.    *)

MaxOps == 4             \* API calls in a run
MaxHalCalls == 6        \* HAL calls of a sync that a fault can hit
LongCount == 16         \* sectors of the long write

Sectors == 0 .. usableSectorCount - 1

\* the first sector whose logical page is mapped by the secondary table
FirstSttSector == (TT_RECORDS_PER_PAGE - ttPageCount) * SECTORS_PER_PAGE

\* flash as the chip is found: erased, or with the odd pages programmed to
\* zeroes by an earlier user
InitImages ==
    {[p \in PhysPages |-> ErasedPage],
     [p \in PhysPages |-> IF p % 2 = 1 THEN ZeroPage ELSE ErasedPage]}

WriteCalls == {<<0, 1>>, <<FirstSttSector - 1, 2>>}
BeyondCalls == {<<usableSectorCount - 1, 2>>}
ReadCalls == {0, FirstSttSector, usableSectorCount}
Probes == {0, 1, FirstSttSector - 1, FirstSttSector, usableSectorCount - 1}

Now == World(flash, ftl, 0)

\* what ftlReadSector(n) gives in w
ReadResult(w, n) ==
    With(ftlReadSector(w, n), LAMBDA r :
    IF r.ub THEN {"undefined"} ELSE IF ~r.ret THEN {"false"} ELSE r.data)

ReadBack(w, S) == [n \in S |-> ReadResult(w, n)]

Over(f, S) == [n \in S |-> f[n]]

AllFF == [n \in Sectors |-> SectorFF]

\* the serial of the master table that is authoritative in w
MttSerial(w) == w.flash[w.ftl.mttPhysicalPageNo].header.serial

\* the master table is waiting for its relocation
Relocating(w) ==
    \E i \in Slots : /\ Buf(w, i).lock
                     /\ Buf(w, i).logicalPageNo = 0
                     /\ Buf(w, i).pMode = RELOCATE_ERASE_PROGRAM

\* the pages of f that loadFTL takes for a master table
Candidates(f) == {p \in PhysPages : IsMTT(f[p].header)}

HeaderFields == {"magicStart", "logicalPageNo", "serial", "padding", "crc16"}
RecordFields == {"physicalPageNo", "sectStatus"}

NoOp ==
    [name |-> "none", ret |-> FALSE, start |-> 0, data |-> SectorFF,
     programs |-> 0, erases |-> 0, failed |-> "none", found |-> FALSE,
     serial0 |-> Nat32(0), serial1 |-> Nat32(0), reloc |-> FALSE,
     before |-> Over(AllFF, Probes), snapshot |-> "none", candidates |-> {},
     field |-> "none", faults |-> 0, fresh |-> FALSE,
     prevName |-> "none", prevRet |-> FALSE, prevFailed |-> "none",
     prevField |-> "none", prevPrograms |-> 0,
     count |-> 0, beyond |-> FALSE, kept |-> TRUE, calls |-> 0, slots |-> <<>>, log |-> <<>>, flushed |-> FALSE, mtt0 |-> 0,
     page |-> -1, states |-> <<>>, recency |-> <<>>, moved |-> FALSE,
     probes |-> 0, taken |-> FALSE]

\* the record of a call that led from w0 to w
Done(name, w0, w, ret) ==
    [NoOp EXCEPT !.name = name, !.ret = ret,
                 !.programs = w.hal.programs, !.erases = w.hal.erases,
                 !.failed = w.hal.failed,
                 !.serial0 = MttSerial(w0), !.serial1 = MttSerial(w),
                 !.reloc = Relocating(w0),
                 !.faults = op.faults + (IF w.hal.failAt = 0 THEN 0 ELSE 1),
                 !.fresh = op.fresh,
                 !.prevName = op.name, !.prevRet = op.ret,
                 !.prevFailed = op.failed, !.prevField = op.field,
                 !.prevPrograms = op.programs,
                 !.kept = (w.flash = w0.flash /\ w.ftl = w0.ftl),
                 !.log = w.hal.log, !.mtt0 = w0.ftl.mttPhysicalPageNo,
                 !.moved = w.hal.moved, !.probes = w.hal.probes,
                 !.taken = w.hal.taken, !.calls = w.hal.calls]

CanStep == nops < MaxOps /\ ~undef

\* the step of a call: what it leaves in the variables
Step(w, newOp, newShadow, newDurable, ub) ==
    /\ flash' = w.flash
    /\ ftl' = w.ftl
    /\ op' = newOp
    /\ shadow' = newShadow
    /\ durable' = newDurable
    /\ undef' = ub
    /\ nops' = nops + 1

\* the state ftlInit leaves on the flash f, content being what its sectors hold
InitState(f, r, content) ==
    /\ flash = r.w.flash
    /\ ftl = r.w.ftl
    /\ op = [NoOp EXCEPT !.name = "mount", !.ret = ~r.ub, !.found = r.found,
                         !.programs = r.w.hal.programs, !.erases = r.w.hal.erases,
                         !.failed = r.w.hal.failed, !.log = r.w.hal.log,
                         !.faults = IF r.w.hal.failAt = 0 THEN 0 ELSE 1,
                         !.serial1 = MttSerial(r.w),
                         !.candidates = Candidates(f), !.fresh = ~r.found]
    /\ shadow = (IF r.found THEN content ELSE AllFF)
    /\ durable = shadow
    /\ undef = r.ub
    /\ nops = 0

Init == \E f \in InitImages : InitState(f, ftlInit(f, 0), AllFF)

\* ftlDeInit, then ftlInit on the same flash
MountStep(r) ==
    Step(r.w,
         [Done("mount", Now, r.w, ~r.ub) EXCEPT
              !.found = r.found, !.fresh = ~r.found,
              !.before = ReadBack(Now, Probes),
              !.candidates = Candidates(flash)],
         IF r.found THEN durable ELSE AllFF,
         IF r.found THEN durable ELSE AllFF,
         r.ub)

Mount == CanStep /\ MountStep(ftlInit(flash, 0))

\* the sectors start .. start + upto - 1 (a uint32_t that wraps) of old
\* replaced by buf
Written(old, start, buf, upto) ==
    [n \in Sectors |-> IF \E k \in 1 .. upto : Add32(start, k - 1) = Nat32(n)
                       THEN buf[CHOOSE k \in 1 .. upto : Add32(start, k - 1) = Nat32(n)]
                       ELSE old[n]]

\* the range of a write ends beyond the device
Beyond(start, count) == start.hi > 0 \/ start.lo + count > usableSectorCount

WriteStep(r, start, buf) ==
    Step(r.w,
         [Done("write", Now, r.w, r.ret) EXCEPT
              !.start = start.lo, !.count = Len(buf), !.beyond = Beyond(start, Len(buf)),
              !.flushed = (r.flushed >= 0)],
         IF r.ret THEN Written(shadow, start, buf, Len(buf)) ELSE shadow,
         IF r.flushed >= 0 THEN Written(shadow, start, buf, r.flushed) ELSE durable,
         r.ub)

WriteCall32(start, buf) ==
    CanStep /\ WriteStep(ftlWriteSector(Now, start, Len(buf), buf), start, buf)

WriteCall(start, buf) == WriteCall32(Nat32(start), buf)

WriteSector ==
    \E c \in WriteCalls : \E v \in Payloads : WriteCall(c[1], [k \in 1 .. c[2] |-> v])

WriteBeyond ==
    \E c \in BeyondCalls : WriteCall(c[1], [k \in 1 .. c[2] |-> {"x"}])

WriteLong == \E v \in Payloads : WriteCall(0, [k \in 1 .. LongCount |-> v])

SyncStep(r) ==
    Step(r.w, Done("sync", Now, r.w, r.ok), shadow,
         IF r.ok THEN shadow ELSE durable, FALSE)

Sync == CanStep /\ SyncStep(ftlSync(Now))

ReadStep(r, n) ==
    Step(r.w, [Done("read", Now, r.w, r.ret) EXCEPT !.start = n, !.data = r.data],
         shadow, durable, r.ub)

ReadSector == \E n \in ReadCalls : CanStep /\ ReadStep(ftlReadSector(Now, n), n)

Next == Mount \/ WriteSector \/ WriteBeyond \/ Sync \/ ReadSector

Spec == Init /\ [][Next]_vars

-----------------------------------------------------------------------------
(* Long writes: no remount, every write in range.  The device is fresh, or *)
(* it is one that was filled to its last sector before.                    *)

\* the sectors from start on written with payload v, LongCount at a time
RECURSIVE FillFrom(_, _, _)

FillCount(start) ==
    IF start + LongCount > usableSectorCount THEN usableSectorCount - start
    ELSE LongCount

FillNext(wr, start, v) == IF wr.ret THEN FillFrom(wr.w, start + LongCount, v) ELSE wr.w

FillFrom(w, start, v) ==
    IF start >= usableSectorCount THEN w
    ELSE FillNext(ftlWriteSector(w, Nat32(start), FillCount(start),
                                 [k \in 1 .. FillCount(start) |-> v]),
                  start, v)

\* the flash of a device that was formatted, filled and synced
FullImage ==
    ftlSync(FillFrom(ftlInit([p \in PhysPages |-> ErasedPage], 0).w, 0, {"x"})).w.flash

InitLong ==
    \/ Init
    \/ InitState(FullImage, ftlInit(FullImage, 0), [n \in Sectors |-> {"x"}])

NextLong == WriteSector \/ WriteLong \/ Sync \/ ReadSector

SpecLong == InitLong /\ [][NextLong]_vars

-----------------------------------------------------------------------------
(* Faults in ftlSync: the HAL call numbered k returns false (nothing        *)
(* written), or the power is lost just before it.  One fault in a run.     *)

\* ftlSync whose HAL call k fails; the RAM stays as the call left it
SyncFaultStep(r) ==
    /\ r.w.hal.failed # "none"
    /\ Step(r.w, Done("syncfault", Now, r.w, r.ok), shadow, durable, FALSE)

SyncFault ==
    \E k \in 1 .. MaxHalCalls :
        CanStep /\ op.faults = 0 /\ SyncFaultStep(ftlSync(World(flash, ftl, k)))

\* which snapshot the sectors read after the power loss are
Snapshot(read) ==
    IF read = Over(durable, Probes) THEN "pre"
    ELSE IF read = Over(shadow, Probes) THEN "post"
    ELSE "mixed"

PowerLossRemount(r, m, snapshot) ==
    Step(m.w,
         [Done("powerloss", Now, r.w, ~m.ub) EXCEPT
              !.found = m.found, !.fresh = ~m.found, !.snapshot = snapshot],
         IF snapshot = "post" THEN shadow ELSE durable,
         IF snapshot = "post" THEN shadow ELSE durable,
         m.ub)

\* the power is lost before the HAL call k of ftlSync; then ftlInit
PowerLossStep(r) ==
    /\ r.w.hal.failed # "none"
    /\ With(ftlInit(r.w.flash, 0), LAMBDA m :
           PowerLossRemount(r, m, Snapshot(ReadBack(m.w, Probes))))

PowerLoss ==
    \E k \in 1 .. MaxHalCalls :
        CanStep /\ op.faults = 0 /\ PowerLossStep(ftlSync(World(flash, ftl, k)))

NextFault == WriteSector \/ Sync \/ Mount \/ SyncFault \/ PowerLoss

SpecFault == Init /\ [][NextFault]_vars

-----------------------------------------------------------------------------
(* Corruption of the master table on the flash at rest: one bit of the     *)
(* page is inverted, then the flash is mounted.                            *)

HeaderBits(field) == IF field \in {"padding", "crc16"} THEN 16 ELSE 32

FlipHeader(header, field, bit) ==
    CASE field = "magicStart" -> [header EXCEPT !.magicStart = FlipBit32(@, bit)]
      [] field = "logicalPageNo" -> [header EXCEPT !.logicalPageNo = FlipBit32(@, bit)]
      [] field = "serial" -> [header EXCEPT !.serial = FlipBit32(@, bit)]
      [] field = "padding" -> [header EXCEPT !.padding = FlipBit(@, bit)]
      [] field = "crc16" -> [header EXCEPT !.crc16 = FlipBit(@, bit)]

RecordBits(field) == IF field = "physicalPageNo" THEN 16 ELSE SECTORS_PER_PAGE

FlipRecord(info, field, bit) ==
    IF field = "physicalPageNo"
    THEN [info EXCEPT !.physicalPageNo = ToInt16(FlipBit(ToU16(@), bit))]
    ELSE [info EXCEPT !.sectStatus = FlipBit(@, bit)]

CorruptStep(page, field) ==
    /\ flash' = [flash EXCEPT ![ftl.mttPhysicalPageNo] = page]
    /\ op' = [NoOp EXCEPT !.name = "corrupt", !.start = ftl.mttPhysicalPageNo,
                          !.field = field, !.faults = 1, !.fresh = op.fresh,
                          !.prevName = op.name]
    /\ nops' = nops + 1
    /\ UNCHANGED <<ftl, shadow, durable, undef>>

CorruptHeader ==
    \E field \in HeaderFields : \E bit \in 0 .. HeaderBits(field) - 1 :
        /\ nops = 0
        /\ CorruptStep([flash[ftl.mttPhysicalPageNo] EXCEPT
                            !.header = FlipHeader(@, field, bit)],
                       field)

CorruptRecord ==
    \E r \in Records : \E field \in RecordFields : \E bit \in 0 .. RecordBits(field) - 1 :
        /\ nops = 0
        /\ CorruptStep([flash[ftl.mttPhysicalPageNo] EXCEPT
                            !.pageInfos[r] = FlipRecord(@, field, bit)],
                       field)

NextCRC == CorruptHeader \/ CorruptRecord \/ Mount

SpecCRC == Init /\ [][NextCRC]_vars

-----------------------------------------------------------------------------
(* Calls out of range: the sector range ends beyond the device, also when  *)
(* the 32 bit sum of start and count wraps around.                         *)

WrapCalls == {<<ALL32, 2>>}

WriteWrap ==
    \E c \in WrapCalls : \E v \in Payloads : WriteCall32(c[1], [k \in 1 .. c[2] |-> v])

NextRange == WriteSector \/ WriteBeyond \/ WriteWrap \/ Sync \/ ReadSector

SpecRange == Init /\ [][NextRange]_vars

-----------------------------------------------------------------------------
(* A HAL call that returns false in any of the API calls: ftlInit (after   *)
(* the scan, or at its first read), ftlWriteSector, ftlReadSector and      *)
(* ftlSync.  One fault in a run.                                           *)

\* the HAL calls of ftlInit that follow the scan for the master table
MountFaults == physicalPageCount + 1 .. physicalPageCount + MaxHalCalls

InitHal ==
    \E f \in InitImages : \E k \in {0} \cup MountFaults :
        InitState(f, ftlInit(f, k), AllFF)

MountFaultStep(r) ==
    /\ r.w.hal.failed # "none"
    /\ Step(r.w,
            [Done("mountfault", Now, r.w, ~r.ub) EXCEPT !.found = r.found],
            IF r.found THEN durable ELSE AllFF,
            IF r.found THEN durable ELSE AllFF,
            r.ub)

MountFault ==
    \E k \in {1} \cup MountFaults :
        CanStep /\ op.faults = 0 /\ MountFaultStep(ftlInit(flash, k))

WriteFaultStep(r, start, buf) ==
    /\ r.w.hal.failed # "none"
    /\ Step(r.w,
            [Done("writefault", Now, r.w, r.ret) EXCEPT !.start = start, !.count = Len(buf)],
            IF r.ret THEN Written(shadow, Nat32(start), buf, Len(buf)) ELSE shadow,
            durable, r.ub)

WriteFault ==
    \E c \in WriteCalls : \E k \in 1 .. MaxHalCalls :
        /\ CanStep /\ op.faults = 0
        /\ WriteFaultStep(ftlWriteSector(World(flash, ftl, k), Nat32(c[1]), c[2],
                                         [i \in 1 .. c[2] |-> {"x"}]),
                          c[1], [i \in 1 .. c[2] |-> {"x"}])

ReadFaultStep(r, n) ==
    /\ r.w.hal.failed # "none"
    /\ Step(r.w, [Done("readfault", Now, r.w, r.ret) EXCEPT !.start = n, !.data = r.data],
            shadow, durable, r.ub)

ReadFault ==
    \E n \in ReadCalls : \E k \in 1 .. MaxHalCalls :
        CanStep /\ op.faults = 0 /\ ReadFaultStep(ftlReadSector(World(flash, ftl, k), n), n)

NextHal ==
    WriteSector \/ Sync \/ ReadSector \/ SyncFault \/ WriteFault \/ ReadFault \/ MountFault

SpecHal == InitHal /\ [][NextHal]_vars

-----------------------------------------------------------------------------
(* ftlInit up to initPageBuffer, for every value of its uint8_t            *)
(* flashSizeInMB.  The sizes are those of the source: a page of 4096       *)
(* bytes and 1024 records in a translation table page give one table page  *)
(* for 4 MiB.                                                              *)

MaxSizeInMB == 255

supportedFlashSizes == <<4, 8, 16, 32, 64, 128>>

\* the loop "Check flash size"
SizeSupported(size) ==
    \E i \in DOMAIN supportedFlashSizes : supportedFlashSizes[i] = size

TtPageCountOf(size) == size \div 4
PageBufferSizeOf(size) == TtPageCountOf(size) * BUFFER_SIZE_MULTIPLIER

ToInt8(x) == IF x % Pow2(8) >= Pow2(7) THEN (x % Pow2(8)) - Pow2(8) ELSE x % Pow2(8)

\* a slot as malloc gives it: any content
MallocSlot ==
    [logicalPageNo |-> 0, physicalPageNo |-> 0, lru |-> 255, lock |-> TRUE,
     pMode |-> RELOCATE_ERASE_PROGRAM]

\* a slot as the body of the loop of initPageBuffer leaves it
FreshSlot(i) ==
    [logicalPageNo |-> -1, physicalPageNo |-> -1, lru |-> i, lock |-> FALSE,
     pMode |-> NONE]

\* the loop of initPageBuffer: at its turn k (0, 1, ...) the int8_t counter i
\* holds k converted to int8_t.  The loop ends at the first turn whose i is
\* not below size; a turn whose i is negative addresses memory before the
\* buffer.  The turns before both have their slot initialised.
InitSlots(size, slots) ==
    LET turns == 0 .. Pow2(8) - 1
        ends == {k \in turns : ToInt8(k) >= size}
        before == {k \in turns : ToInt8(k) < 0}
        First(S) == CHOOSE k \in S : \A q \in S : k <= q
        stop == IF ends = {} THEN First(before)
                ELSE IF First(before) < First(ends) THEN First(before) ELSE First(ends)
    IN  [slots |-> [j \in DOMAIN slots |-> IF j < stop THEN FreshSlot(j) ELSE slots[j]],
         ub |-> stop \notin ends]

\* ftlInit(rf, pf, ef, ief, size): whether a handle is returned, the slots
\* of its cache, and the HAL calls made at least (the scan for the master
\* table reads every page)
FtlInitSize(size) ==
    IF ~SizeSupported(size)
    THEN [handle |-> FALSE, slots |-> <<>>, calls |-> 0, ub |-> FALSE]
    ELSE With(InitSlots(PageBufferSizeOf(size),
                        [j \in 0 .. PageBufferSizeOf(size) - 1 |-> MallocSlot]),
              LAMBDA r :
         [handle |-> ~r.ub, slots |-> r.slots,
          calls |-> IF r.ub THEN 0 ELSE TtPageCountOf(size), ub |-> r.ub])

InitSizes ==
    \E size \in 0 .. MaxSizeInMB :
        /\ flash = [p \in PhysPages |-> ErasedPage]
        /\ ftl = initPageBuffer
        /\ op = [NoOp EXCEPT !.name = "size", !.start = size]
        /\ shadow = AllFF
        /\ durable = AllFF
        /\ undef = FALSE
        /\ nops = 0

InitSizeStep(r) ==
    /\ op' = [NoOp EXCEPT !.name = "init", !.start = op.start, !.ret = r.handle,
                          !.slots = r.slots, !.calls = r.calls]
    /\ undef' = r.ub
    /\ nops' = nops + 1
    /\ UNCHANGED <<flash, ftl, shadow, durable>>

InitSize == op.name = "size" /\ InitSizeStep(FtlInitSize(op.start))

SpecSizes == InitSizes /\ [][InitSize]_vars

-----------------------------------------------------------------------------
(* Power loss in a sync that follows first writes to several sectors of    *)
(* one page.                                                               *)

AppendCalls == {<<1, 1>>}

WriteAppend ==
    \E c \in AppendCalls : \E v \in Payloads : WriteCall(c[1], [k \in 1 .. c[2] |-> v])

NextPower == WriteSector \/ WriteAppend \/ Sync \/ PowerLoss \/ ReadSector

SpecPower == Init /\ [][NextPower]_vars

-----------------------------------------------------------------------------
(* The allocator alone, on page-state maps with runs of USED pages of      *)
(* every kind: none, one page, all but one page, and all pages (the map    *)
(* that a table with a record for every physical page resolves to).        *)

AllocRunStarts == {0, physicalPageCount - 3}
AllocRunLengths == {0, 1, physicalPageCount - 1, physicalPageCount}
AllocIslandStride == 3

AllocMap(a, len, other, islands) ==
    [p \in PhysPages |->
        IF TurnOf(a, p) < len \/ (islands /\ p % AllocIslandStride = 0)
        THEN USED ELSE other]

AllocMaps ==
    {AllocMap(a, len, other, islands) :
        a \in AllocRunStarts, len \in AllocRunLengths,
        other \in {UNKNOWN, ERASE_REQUIRED, ERASED}, islands \in BOOLEAN}

InitAllocState(r, states, frontier) ==
    /\ flash = r.w.flash
    /\ ftl = [r.w.ftl EXCEPT !.physicalPageState = states, !.writeFrontier = frontier]
    /\ op = [NoOp EXCEPT !.name = "mount", !.ret = TRUE]
    /\ shadow = AllFF
    /\ durable = AllFF
    /\ undef = FALSE
    /\ nops = 0

InitAlloc ==
    \E states \in AllocMaps : \E frontier \in PhysPages :
        InitAllocState(ftlInit([p \in PhysPages |-> ErasedPage], 0), states, frontier)

AllocStep(r) ==
    Step(r.w,
         [Done("alloc", Now, r.w, r.page # -1) EXCEPT
              !.start = ftl.writeFrontier, !.page = r.page,
              !.states = ftl.physicalPageState],
         shadow, durable, FALSE)

Alloc == CanStep /\ AllocStep(allocatePhysicalPage(Now))

SpecAlloc == InitAlloc /\ [][Alloc]_vars

-----------------------------------------------------------------------------
(* The page buffer cache alone: single calls of loadPhysicalPageInBuffer   *)
(* and initPhysicalPageInBuffer, and the unlock that ends a sync, from a   *)
(* mounted cache in which a number of slots, up to all of them, hold       *)
(* freshly initialised (locked) pages.  op.recency is the order of the     *)
(* slots by their last use, most recent first: every slot that a call      *)
(* returned was used by it.                                                *)

FirstLockedPage == 10
CachePages == {FirstLockedPage, 20, 21}
CacheLogicalPage == ttPageCount

Used(recency, b) == IF b = NULL THEN recency ELSE PromoteLru(recency, b)

\* the cache after mount and count initialisations of fresh pages
RECURSIVE LockedCache(_, _)

LockedNext(c, physicalPageNo) ==
    With(initPhysicalPageInBuffer(c.w, CacheLogicalPage, physicalPageNo), LAMBDA r :
    [w |-> r.w, recency |-> Used(c.recency, r.b)])

LockedFirst(r) == [w |-> r.w, recency |-> r.w.ftl.lru]

LockedCache(mounted, count) ==
    IF count = 0 THEN LockedFirst(mounted)
    ELSE LockedNext(LockedCache(mounted, count - 1), FirstLockedPage + count - 1)

InitCacheState(c) ==
    /\ flash = c.w.flash
    /\ ftl = c.w.ftl
    /\ op = [NoOp EXCEPT !.name = "mount", !.ret = TRUE, !.recency = c.recency]
    /\ shadow = AllFF
    /\ durable = AllFF
    /\ undef = FALSE
    /\ nops = 0

InitCache ==
    \E mounted \in {ftlInit([p \in PhysPages |-> ErasedPage], 0)} :
        \E count \in 0 .. pageBufferSize : InitCacheState(LockedCache(mounted, count))

CacheStep(name, r, physicalPageNo) ==
    Step(r.w,
         [Done(name, Now, r.w, r.b # NULL) EXCEPT
              !.start = physicalPageNo, !.page = r.b,
              !.recency = Used(op.recency, r.b)],
         shadow, durable, FALSE)

CacheLoad ==
    \E p \in CachePages :
        CanStep /\ CacheStep("load", loadPhysicalPageInBuffer(Now, CacheLogicalPage, p), p)

CacheInit ==
    \E p \in CachePages :
        CanStep /\ CacheStep("init", initPhysicalPageInBuffer(Now, CacheLogicalPage, p), p)

\* the unlocks of a sync
UnlockedAll(w) ==
    [w EXCEPT !.ftl.pageBuffer =
                  [i \in Slots |-> [@[i] EXCEPT !.lock = FALSE, !.pMode = NONE]]]

CacheUnlock ==
    /\ CanStep
    /\ \E i \in Slots : ftl.pageBuffer[i].lock
    /\ Step(UnlockedAll(Now),
            [Done("unlock", Now, UnlockedAll(Now), TRUE) EXCEPT !.recency = op.recency],
            shadow, durable, FALSE)

NextCache == CacheLoad \/ CacheInit \/ CacheUnlock

SpecCache == InitCache /\ [][NextCache]_vars

-----------------------------------------------------------------------------
(* The lazy resolver alone, on page-state maps with up to a few UNKNOWN    *)
(* pages at and around the end of the array, over a flash whose odd pages  *)
(* are programmed.                                                         *)

ResolveCounts == {1, ttPageCount, pageBufferSize}
ResolveStarts == {0, 5, physicalPageCount - 2}
ResolveStrides == {1, 3}
MaxUnknown == 3
ResolveFrontiers == {0, 1, 6, physicalPageCount - 1}

\* count pages UNKNOWN, stride apart from page a on; the others in the
\* states that programs and earlier resolutions leave
ResolveMap(a, count, stride) ==
    [p \in PhysPages |->
        IF \E k \in 0 .. count - 1 : p = (a + k * stride) % physicalPageCount
        THEN UNKNOWN
        ELSE IF p % 3 = 0 THEN USED
        ELSE IF p % 2 = 1 THEN ERASE_REQUIRED ELSE ERASED]

InitResolveState(r, states, frontier) ==
    /\ flash = [p \in PhysPages |-> IF p % 2 = 1 /\ p >= ttPageCount THEN ZeroPage
                                      ELSE r.w.flash[p]]
    /\ ftl = [r.w.ftl EXCEPT !.physicalPageState = states, !.writeFrontier = frontier,
                             !.physicalPageStateResolved = FALSE]
    /\ op = [NoOp EXCEPT !.name = "mount", !.ret = TRUE]
    /\ shadow = AllFF
    /\ durable = AllFF
    /\ undef = FALSE
    /\ nops = 0

InitResolve ==
    \E mounted \in {ftlInit([p \in PhysPages |-> ErasedPage], 0)} :
        \E a \in ResolveStarts : \E count \in 0 .. MaxUnknown :
            \E stride \in ResolveStrides : \E frontier \in ResolveFrontiers :
                InitResolveState(mounted, ResolveMap(a, count, stride), frontier)

ResolveStep(w, count) ==
    Step(w, [Done("resolve", Now, w, TRUE) EXCEPT !.count = count], shadow, durable, FALSE)

Resolve ==
    \E count \in ResolveCounts : CanStep /\ ResolveStep(resolveUnknownState(Now, count), count)

SpecResolve == InitResolve /\ [][Resolve]_vars

-----------------------------------------------------------------------------
(* A device in use for long: the write frontier has gone round the flash   *)
(* once and stands before the pages that were written first.               *)

\* the sector that the ageing writes go to, and the number of them that takes
\* the write frontier of a formatted device round to page 0
AgedSector == 2
Rewrites == (physicalPageCount - 6) \div 2 + 1

\* the first writes of a formatted device, synced
FirstWritten(w) ==
    ftlSync(ftlWriteSector(ftlWriteSector(w, Nat32(0), 1, <<{"x"}>>).w,
                           Nat32(FirstSttSector - 1), 2, <<{"x"}, {"x"}>>).w).w

RECURSIVE Rewritten(_, _)

RewrittenNext(w, n) == Rewritten(World(w.flash, w.ftl, 0), n - 1)

\* n writes of AgedSector, each one synced
Rewritten(w, n) ==
    IF n = 0 THEN w
    ELSE CHOOSE aged \in {RewrittenNext(r, n) :
                              r \in {ftlSync(ftlWriteSector(w, Nat32(AgedSector), 1,
                                                            <<{"y"}>>).w).w}} : TRUE

AgedContent ==
    [n \in Sectors |-> IF n \in {0, FirstSttSector - 1, FirstSttSector} THEN {"x"}
                       ELSE IF n = AgedSector THEN {"y"} ELSE SectorFF]

\* the device is formatted, written and rewritten, a third of the rewrites
\* at a time, and mounted again
InitWrap ==
    \E fresh \in {ftlInit([p \in PhysPages |-> ErasedPage], 0).w} :
    \E young \in {Rewritten(FirstWritten(fresh), Rewrites \div 3)} :
    \E old \in {Rewritten(young, Rewrites \div 3)} :
    \E aged \in {Rewritten(old, Rewrites - 2 * (Rewrites \div 3))} :
    \E mounted \in {ftlInit(aged.flash, 0)} :
        InitState(aged.flash, mounted, AgedContent)

NextWrap == WriteSector \/ Sync \/ ReadSector

SpecWrap == InitWrap /\ [][NextWrap]_vars

-----------------------------------------------------------------------------
(* The properties.                                                         *)

UsedPages == {p \in PhysPages : ftl.physicalPageState[p] = USED}

\* the PageInfo of a logical page in the translation table on the flash f
\* whose master table is on the page mtt
MediaInfo(f, mtt, logicalPageNo) ==
    IF logicalPageNo < TT_RECORDS_PER_PAGE THEN f[mtt].pageInfos[logicalPageNo]
    ELSE LET stt == ToU16(f[mtt].pageInfos[logicalPageNo \div TT_RECORDS_PER_PAGE]
                              .physicalPageNo)
         IN  IF stt \in PhysPages THEN f[stt].pageInfos[logicalPageNo % TT_RECORDS_PER_PAGE]
             ELSE ErasedInfo

DataPages == {l \in LogicalPages : l >= ttPageCount}

\* the sectors that the table on the flash has as never written, on pages
\* it has as allocated, hold all-ones on the flash
UnwrittenAreFF(f, mtt) ==
    \A l \in DataPages : \A x \in PageSectors :
        /\ MediaInfo(f, mtt, l).physicalPageNo \in PhysPages
        /\ SectTest(MediaInfo(f, mtt, l).sectStatus, x)
        => f[MediaInfo(f, mtt, l).physicalPageNo].data[x] = SectorFF

CoveredFields == {"magicStart", "logicalPageNo", "serial", "crc16"}

\* C1: on an FTL that init has formatted, with a HAL that never fails, a
\* read_sector of a sector in range that follows any writes in range and
\* syncs returns true and gives the payload of the most recent write to the
\* sector, or 0xFF bytes when there was none.
C1_RoundTrip ==
    op.name = "read" /\ op.fresh /\ op.start < usableSectorCount
        => ~undef /\ op.ret /\ op.data = shadow[op.start]

\* C2: when the power is lost at a boundary between HAL calls of a sync, the
\* sectors read after the remount are those of the last successful sync or
\* those with every pending write applied, never a mixture.
C2_CrashSafeSync == op.name = "powerloss" => op.snapshot \in {"pre", "post"}

\* C3: after a sync that returned true, deinit and init on the same flash
\* mount the FTL that is there, and every sector reads what it read just
\* before the remount.
C3_DurableAcrossRemount ==
    op.name = "mount" /\ op.prevName = "sync" /\ op.prevRet
        => op.found /\ ~undef /\ ReadBack(Now, Probes) = op.before

\* C4: when the flash_program of the master table fails in a sync, the sync
\* returns false and a remount gives every sector the content of the last
\* successful sync.
C4_MttProgramFailure ==
    /\ op.name = "syncfault" /\ op.failed = "programMTT" => ~op.ret
    /\ op.name = "mount" /\ op.prevName = "syncfault" /\ op.prevFailed = "programMTT"
           => ReadBack(Now, Probes) = Over(durable, Probes)

\* C5, as the specification has it: a successful sync that programs the
\* flash leaves the master table with a serial greater than before.
C5_SerialStrictlyIncreases ==
    op.name = "sync" /\ op.ret /\ op.programs > 0 => Gt32(op.serial1, op.serial0)

\* C5, amended: a successful sync never lowers the serial of the master
\* table, and it raises it when the master table was waiting for its
\* relocation, as it is after the overwrite of a written sector.
C5_SerialMonotonic ==
    op.name = "sync" /\ op.ret
        => /\ ~Gt32(op.serial0, op.serial1)
           /\ op.reloc => Gt32(op.serial1, op.serial0)

C5_Witness == op.name = "sync" /\ op.ret /\ op.reloc /\ op.prevName = "write"

\* C6: with a HAL that never fails, every write_sector in range returns
\* true (so the allocator never gives -1), no more pages are USED than there
\* are data pages and translation table pages, and some page is not USED.
C6_Capacity ==
    /\ ~undef
    /\ op.name \in {"write", "sync"} => op.ret
    /\ Cardinality(UsedPages) <= usableSectorCount \div SECTORS_PER_PAGE + ttPageCount
    /\ UsedPages # PhysPages

\* an overwrite on a device filled to its last sector, synced
C6_Witness ==
    /\ op.name = "sync" /\ op.ret /\ op.reloc /\ op.prevName = "write"
    /\ Cardinality(UsedPages) = usableSectorCount \div SECTORS_PER_PAGE + ttPageCount

\* C7: after a sync that returned true no slot is locked and every slot has
\* mode NONE, and a sync that follows at once programs nothing, erases
\* nothing and returns true.
C7_IdempotentSync ==
    /\ op.name = "sync" /\ op.ret
           => \A i \in Slots : ~ftl.pageBuffer[i].lock /\ ftl.pageBuffer[i].pMode = NONE
    /\ op.name = "sync" /\ op.prevName = "sync" /\ op.prevRet
           => op.ret /\ op.programs = 0 /\ op.erases = 0

C7_Witness ==
    op.name = "sync" /\ op.ret /\ op.prevName = "sync" /\ op.prevRet /\ op.prevPrograms > 0

\* C8, as the specification has it: one bit inverted anywhere in the page of
\* a master table makes the mount take the page for a master table no more.
C8_AnyFlipRejected == op.name = "corrupt" => ~IsMTT(flash[op.start].header)

\* C8, amended: one bit inverted in the magic, the logical page number, the
\* serial or the checksum of the header makes the mount take the page for a
\* master table no more; the padding and the records are not covered.
C8_HeaderFlipRejected ==
    /\ op.name = "corrupt" /\ op.field \in CoveredFields
           => ~IsMTT(flash[op.start].header)
    /\ op.name = "mount" /\ op.prevName = "corrupt" /\ op.prevField \in CoveredFields
           => ~op.found

C8_Witness ==
    op.name = "mount" /\ op.prevName = "corrupt" /\ op.prevField = "serial" /\ ~op.found

\* C9: when the flash holds a page that passes the test for a master table,
\* the mount takes such a page, one whose serial no other such page exceeds,
\* marks it USED and puts the write frontier on the page after it.
C9_MountAuthority ==
    op.name = "mount" /\ op.candidates # {}
        => /\ op.found /\ ~undef
           /\ ftl.mttPhysicalPageNo \in op.candidates
           /\ \A q \in op.candidates :
                  ~Gt32(flash[q].header.serial, flash[ftl.mttPhysicalPageNo].header.serial)
           /\ ftl.physicalPageState[ftl.mttPhysicalPageNo] = USED
           /\ ftl.writeFrontier = (ftl.mttPhysicalPageNo + 1) % physicalPageCount

\* a mount with a stale copy of the master table on the flash
C9_Witness ==
    op.name = "mount" /\ op.found /\ Cardinality(op.candidates) >= 2

\* C10: when init finds no master table it formats: the pages 0 .. T-1 hold
\* translation table pages with their index as logical page number, serial 1
\* and a matching checksum, record i of the master table refers to page i,
\* these pages are USED, the write frontier is T and every sector in range
\* reads true with 0xFF bytes, whatever the flash held.
C10_Format ==
    op.name = "mount" /\ ~op.found
        => /\ ~undef
           /\ \A i \in 0 .. ttPageCount - 1 :
                  /\ flash[i].header.magicStart = TT_PAGE_MAGIC
                  /\ flash[i].header.logicalPageNo = Nat32(i)
                  /\ flash[i].header.serial = Nat32(1)
                  /\ flash[i].header.crc16 = calcCRC(flash[i].header)
                  /\ flash[0].pageInfos[i].physicalPageNo = i
                  /\ ftl.physicalPageState[i] = USED
           /\ ftl.mttPhysicalPageNo = 0
           /\ ftl.writeFrontier = ttPageCount
           /\ ReadBack(Now, Sectors) = AllFF

\* a format of a flash that held something
C10_Witness == op.name = "mount" /\ ~op.found /\ ~undef /\ op.erases > 0

\* C11: a write_sector whose range ends beyond the device (start + count
\* taken as integers) and a read_sector of a sector beyond it return false
\* and leave the flash and the FTL structure as they were.
C11_OutOfRangeRejected ==
    /\ op.name = "write" /\ op.beyond => ~op.ret /\ op.kept
    /\ op.name = "read" /\ op.start >= usableSectorCount => ~op.ret /\ op.kept

\* C12: an API call one of whose HAL calls returned false reports failure:
\* it does not return true (a handle, for init), and it does not go on to
\* use what the failed call should have delivered.
C12_HalFailurePropagates == op.failed # "none" => ~op.ret /\ ~undef

\* C13: init returns null without a HAL call when the size is not one of
\* 4, 8, 16, 32, 64 and 128 MiB; for each of these it returns a handle whose
\* cache has 4 * T slots, every one unlocked, with mode NONE, physical and
\* logical page -1 and its own index as LRU rank.
C13_InitSizes ==
    op.name = "init"
        => IF op.start \notin {4, 8, 16, 32, 64, 128}
           THEN ~op.ret /\ op.calls = 0
           ELSE /\ op.ret /\ ~undef /\ op.calls > 0
                /\ DOMAIN op.slots = 0 .. 4 * (op.start \div 4) - 1
                /\ \A j \in DOMAIN op.slots : op.slots[j] = FreshSlot(j)

\* C14, as the specification has it: after init, after a write_sector and
\* after a sync, every physical page that the translation table (cached,
\* else on the flash) records for a logical page is USED in the state map.
C14_ClaimedPagesUsed ==
    op.name \in {"mount", "write", "sync"} /\ ~undef
        => \A p \in Claimed(Now) : p \in PhysPages /\ ftl.physicalPageState[p] = USED

\* C14, amended: this holds after init and after a sync that returned true;
\* after a write_sector the data pages that were allocated for a first write
\* and wait in a locked slot for their program are recorded but not yet USED.
C14_ClaimedPagesUsedOrPending ==
    /\ op.name \in {"mount", "sync"} /\ op.ret /\ ~undef
           => \A p \in Claimed(Now) : p \in PhysPages /\ ftl.physicalPageState[p] = USED
    /\ op.name = "write" /\ ~undef
           => \A p \in Claimed(Now) :
                  /\ p \in PhysPages
                  /\ ftl.physicalPageState[p] = USED \/ p \in Pending(Now)

\* a write that left a page recorded, pending and not USED
C14_Witness ==
    /\ op.name = "write" /\ op.ret
    /\ \E p \in Claimed(Now) \cap Pending(Now) : ftl.physicalPageState[p] # USED

\* C15: in every state, also after a HAL call that failed, a physical page
\* whose state in the state map is ERASED holds all-ones on the flash.
C15_ErasedIsAllOnes ==
    \A p \in PhysPages : ftl.physicalPageState[p] = ERASED => flash[p] = ErasedPage

\* after a failed HAL call, on a flash that was not blank: some page is
\* ERASED, some page that holds data is not
C15_Witness ==
    /\ op.failed # "none" /\ op.name \in {"syncfault", "writefault"} /\ op.programs > 0
    /\ \E p \in PhysPages : ftl.physicalPageState[p] = ERASED
    /\ \E p \in PhysPages :
           ftl.physicalPageState[p] = ERASE_REQUIRED /\ flash[p] # ErasedPage

\* C16: after a sync that returned true, and after the remount that follows
\* a power loss at a HAL call of a sync, every sector that the translation
\* table on the flash has as never written, on a data page it has as
\* allocated, holds 0xFF bytes on the flash.
C16_UnwrittenSectorsAreFF ==
    /\ op.name = "sync" /\ op.ret => UnwrittenAreFF(flash, ftl.mttPhysicalPageNo)
    /\ op.name = "powerloss" /\ ~undef => UnwrittenAreFF(flash, ftl.mttPhysicalPageNo)

\* C17: allocatePhysicalPage returns the first page that is not USED in the
\* circular order from the write frontier, never a USED page, leaves the
\* frontier on the page after the returned one (0 after the last page),
\* changes no page state, and returns -1 only when every page is USED.
C17_AllocateFirstFree ==
    op.name = "alloc" =>
        /\ ftl.physicalPageState = op.states
        /\ op.page = -1 => \A p \in PhysPages : op.states[p] = USED
        /\ op.page # -1 =>
              /\ op.page \in PhysPages
              /\ op.states[op.page] # USED
              /\ \A p \in PhysPages :
                    TurnOf(op.start, p) < TurnOf(op.start, op.page) => op.states[p] = USED
              /\ ftl.writeFrontier = (IF op.page = physicalPageCount - 1 THEN 0 ELSE op.page + 1)

C17_Witness ==
    /\ op.name = "alloc"
    /\ op.page # -1
    /\ op.page < op.start
    /\ op.states[op.start] = USED

\* the calls of flashErase and flashProgram that a sync made for a data
\* page, for a secondary table and for the master table
ForData(entry) == entry.lpn >= ttPageCount
ForStt(entry) == entry.lpn > 0 /\ entry.lpn < ttPageCount
ForMtt(entry) == entry.lpn = 0

\* C18: in one call of ftlSync every erase and program for a data page comes
\* before every erase and program for a secondary table, a program of the
\* master table is the last program of the call, and mttPhysicalPageNo has
\* changed only when that last program returned true.
C18_SyncOrdering ==
    op.name \in {"sync", "syncfault"} =>
        /\ \A i, j \in DOMAIN op.log :
              ForData(op.log[i]) /\ ForStt(op.log[j]) => i < j
        /\ \A i \in DOMAIN op.log :
              op.log[i].kind = "program" /\ ForMtt(op.log[i]) => i = Len(op.log)
        /\ ftl.mttPhysicalPageNo # op.mtt0 =>
              /\ op.log # <<>>
              /\ op.log[Len(op.log)].kind = "program"
              /\ op.log[Len(op.log)].page = ftl.mttPhysicalPageNo
              /\ op.log[Len(op.log)].ok
              /\ op.log[Len(op.log)].lpn = 0

C18_Witness ==
    /\ op.name = "sync"
    /\ op.ret
    /\ ftl.mttPhysicalPageNo # op.mtt0
    /\ \E i, j, k \in DOMAIN op.log :
          /\ ForData(op.log[i]) /\ op.log[i].kind = "erase"
          /\ ForStt(op.log[j]) /\ op.log[j].kind = "program"
          /\ ForMtt(op.log[k]) /\ op.log[k].kind = "erase"

\* the slots that are not locked, and the one of them that a rank order
\* (the slot at each rank, rank 0 first) has last
UnlockedSlots == {i \in Slots : ~ftl.pageBuffer[i].lock}
LastOf(order) ==
    order[CHOOSE r \in Slots :
              /\ order[r] \in UnlockedSlots
              /\ \A q \in Slots : order[q] \in UnlockedSlots => q <= r]
Cached(physicalPageNo) == \E i \in Slots : ftl.pageBuffer[i].physicalPageNo = physicalPageNo

\* what a load or an initialisation of a page that is not cached does to
\* the slots, the victim being the last unlocked slot of the order
Evicts(order) ==
    op'.name \in {"load", "init"} /\ ~Cached(op'.start) =>
        /\ \A i \in Slots :
              ftl.pageBuffer[i].lock => ftl'.pageBuffer[i] = ftl.pageBuffer[i]
        /\ UnlockedSlots = {} => ~op'.ret /\ ftl'.pageBuffer = ftl.pageBuffer
        /\ UnlockedSlots # {} =>
              /\ op'.ret
              /\ op'.page = LastOf(order)
              /\ ftl'.pageBuffer[op'.page].physicalPageNo = op'.start
              /\ \A i \in Slots \ {op'.page} : ftl'.pageBuffer[i] = ftl.pageBuffer[i]

\* C19: a load or initialisation of a page that is not cached replaces the
\* least recently used of the unlocked slots and no locked slot; with every
\* slot locked it fails and changes no slot.
C19_EvictsLeastRecentlyUsed == [][Evicts(op.recency)]_vars

\* the same with the rank that the lru fields keep in place of the use
C19_EvictsLastRank == [][Evicts(ftl.lru)]_vars

\* a slot is locked exactly when it has a program mode
ModeWithLock ==
    \A i \in Slots : ftl.pageBuffer[i].lock <=> ftl.pageBuffer[i].pMode # NONE

\* a call that makes no sync leaves every locked slot locked, on its page,
\* in a mode that is not lower
ModeKept ==
    /\ op'.name \in {"write", "read"}
    /\ ~op'.flushed
    => \A i \in Slots :
          ftl.pageBuffer[i].lock =>
              /\ ftl'.pageBuffer[i].lock
              /\ ftl'.pageBuffer[i].physicalPageNo = ftl.pageBuffer[i].physicalPageNo
              /\ ftl'.pageBuffer[i].pMode >= ftl.pageBuffer[i].pMode

\* C20: a locked slot never has the mode NONE and its mode never decreases
\* in the order PROGRAM < ERASE_PROGRAM < RELOCATE_ERASE_PROGRAM until a sync
\* unlocks it, whatever writes touch its page; an unlocked slot always has
\* the mode NONE.
C20_ModePromotion == [](~undef => ModeWithLock) /\ [][ModeKept]_vars

C20_Witness ==
    /\ op.name = "write" /\ op.prevName = "write" /\ op.ret
    /\ \E i, j, k \in Slots :
          /\ ftl.pageBuffer[i].lock /\ ftl.pageBuffer[i].pMode = PROGRAM
          /\ ftl.pageBuffer[j].lock /\ ftl.pageBuffer[j].pMode = ERASE_PROGRAM
          /\ ftl.pageBuffer[k].lock /\ ftl.pageBuffer[k].pMode = RELOCATE_ERASE_PROGRAM

\* C21: with a HAL that never fails, a write in range, whose every sector
\* starts with three unlocked slots (found, or left by the sync it makes),
\* has every load and initialisation succeed: it returns true, uses no null
\* buffer, and every payload is copied into a slot that holds its logical page.
C21_BufferSlack ==
    op.name = "write" /\ ~op.beyond => op.ret /\ ~undef /\ ~op.moved

C21_Witness ==
    /\ op.name = "write" /\ op.count = LongCount /\ op.flushed /\ op.ret
    /\ Cardinality({i \in Slots : ftl.pageBuffer[i].lock}) >= pageBufferSize - 3

\* the pages whose state a step changes
Resolved == {p \in PhysPages : ftl'.physicalPageState[p] # ftl.physicalPageState[p]}

\* what one call of resolveUnknownState does
ResolveEffect ==
    op'.name = "resolve" =>
        /\ \A p \in Resolved :
              /\ ftl.physicalPageState[p] = UNKNOWN
              /\ ftl'.physicalPageState[p] =
                    (IF flash[p] = ErasedPage THEN ERASED ELSE ERASE_REQUIRED)
              /\ \A q \in PhysPages \ Resolved :
                    ftl.physicalPageState[q] = UNKNOWN
                    => TurnOf(ftl.writeFrontier, p) < TurnOf(ftl.writeFrontier, q)
        /\ Cardinality(Resolved) <= op'.count
        /\ op'.probes = Cardinality(Resolved)
        /\ ftl' = [ftl EXCEPT
                       !.physicalPageState = ftl'.physicalPageState,
                       !.physicalPageStateResolved = ftl'.physicalPageStateResolved]
        /\ flash' = flash
        /\ ftl'.physicalPageStateResolved =>
              \A p \in PhysPages : ftl'.physicalPageState[p] # UNKNOWN
        /\ ftl.physicalPageStateResolved => ftl' = ftl /\ op'.probes = 0

\* C22: resolveUnknownState(count), count >= 1, changes only UNKNOWN pages,
\* at most count of them and the first ones in circular order from the
\* write frontier, to ERASED where isFlashErased holds and to ERASE_REQUIRED
\* elsewhere; physicalPageStateResolved becomes true only with no UNKNOWN
\* page left, and from then on no page is UNKNOWN and a call changes nothing
\* and probes nothing.
C22_LazyResolver ==
    /\ [](ftl.physicalPageStateResolved =>
             \A p \in PhysPages : ftl.physicalPageState[p] # UNKNOWN)
    /\ [][ResolveEffect]_vars

C22_Witness ==
    /\ op.name = "resolve"
    /\ op.count > 1
    /\ op.probes = op.count
    /\ ~ftl.physicalPageStateResolved
    /\ \A p \in PhysPages : ftl.physicalPageState[p] # UNKNOWN

\* the flashProgram calls of the last call that were made for a buffer in
\* the mode ERASE_PROGRAM or RELOCATE_ERASE_PROGRAM
ErasingPrograms ==
    {i \in DOMAIN op.log :
        /\ op.log[i].kind = "program"
        /\ op.log[i].mode \in {ERASE_PROGRAM, RELOCATE_ERASE_PROGRAM}}

\* C23: a buffer in the mode RELOCATE_ERASE_PROGRAM or ERASE_PROGRAM is
\* programmed onto a page that is all-ones at the moment of flashProgram:
\* the relocation target is erased first unless its own state is ERASED.
C23_ProgramOnErased ==
    op.name \in {"write", "sync"} => \A i \in ErasingPrograms : op.log[i].clean

\* the slots that hold logical page 0, and those that hold the page of the
\* master table
MttSlots == {i \in Slots : ftl.pageBuffer[i].logicalPageNo = 0}
MttPageSlots == {i \in Slots : ftl.pageBuffer[i].physicalPageNo = ftl.mttPhysicalPageNo}

\* C24: between API calls, also after a sync that failed in the erase or
\* the program of the relocated master table, record 0 of the cached master
\* table has mttPhysicalPageNo as its physical page, and at most one slot
\* holds logical page 0.
C24_MttRecordZero ==
    ~undef =>
        /\ Cardinality(MttSlots) <= 1
        /\ \A i \in MttPageSlots :
              ftl.pageBuffer[i].page.pageInfos[0].physicalPageNo = ftl.mttPhysicalPageNo

\* the logical pages that the translation table has on a physical page
Located == {l \in LogicalPages : InfoView(Now, l).physicalPageNo >= 0}

\* C25: with a HAL that never fails, no physical page is the location of
\* two logical pages in the translation table as the FTL sees it, and
\* allocatePhysicalPage returns no page that a locked slot holds or that the
\* table has as the location of a logical page.
C25_MappingInjective ==
    ~undef /\ op.name \in {"mount", "write", "sync", "read"} =>
        /\ ~op.taken
        /\ Cardinality({InfoView(Now, l).physicalPageNo : l \in Located})
              = Cardinality(Located)

C25_Witness ==
    /\ op.name = "sync" /\ op.ret /\ op.prevName = "write" /\ op.flushed = FALSE
    /\ op.programs > ttPageCount
    /\ Cardinality(Located) > 2 * ttPageCount
    /\ \E p \in PhysPages : ftl.physicalPageState[p] = ERASE_REQUIRED /\ p < ftl.writeFrontier

\* the erases and the programs of relocated buffers that an operation made
Reclaims ==
    {i \in DOMAIN op.log :
        \/ op.log[i].kind = "erase"
        \/ op.log[i].kind = "program" /\ op.log[i].mode = RELOCATE_ERASE_PROGRAM}

\* the pages that relocations of the sync of the call i left behind before it
Orphaned(i) ==
    {op.log[j].from : j \in {x \in 1 .. i - 1 :
                                /\ op.log[x].sync = op.log[i].sync
                                /\ op.log[x].kind = "program" /\ op.log[x].ok
                                /\ op.log[x].mode = RELOCATE_ERASE_PROGRAM}}

\* C26: in a sync no page that the master table on the flash refers to,
\* directly or through its secondary tables, and not the page of that master
\* table, is erased or made the target of a relocation before the program of
\* the new master table has completed; a page that a relocation of the sync
\* left behind is not allocated again in that sync.
C26_LiveUntilCommit ==
    op.name \in {"write", "sync", "writefault", "syncfault", "powerloss"} =>
        \A i \in Reclaims : ~op.log[i].live /\ op.log[i].page \notin Orphaned(i)

\* what a call of ftlReadSector leaves as it was
ReadKeeps ==
    op'.name \in {"read", "readfault"} /\ ~undef' =>
        /\ op'.log = <<>> /\ op'.programs = 0 /\ op'.erases = 0
        /\ flash' = flash
        /\ ftl'.physicalPageState = ftl.physicalPageState
        /\ ftl'.writeFrontier = ftl.writeFrontier
        /\ ftl'.mttPhysicalPageNo = ftl.mttPhysicalPageNo
        /\ \A i \in Slots :
              IF ftl.pageBuffer[i].lock THEN ftl'.pageBuffer[i] = ftl.pageBuffer[i]
              ELSE ~ftl'.pageBuffer[i].lock

\* C27: a read_sector call makes no flash_program and no flash_erase and
\* leaves the page-state map, the write frontier, mtt_physical and the lock
\* flag, program mode, page numbers and contents of every locked cache slot
\* as they were; it reloads unlocked slots and reorders the LRU ranks only.
C27_ReadHasNoWriteEffects == [][ReadKeeps]_vars

\* a read that loaded a page from the flash while other slots were locked
C27_Witness ==
    /\ op.name = "read" /\ op.ret /\ op.calls > 0 /\ op.data # SectorFF
    /\ op.prevName = "write"
    /\ \E i \in Slots : ftl.pageBuffer[i].lock /\ ftl.pageBuffer[i].logicalPageNo >= ttPageCount

=============================================================================
